---------------------------- MODULE Spec2Model ----------------------------
(***************************************************************************)
(* Verification model of the WoWTranslator chat-capture pipeline.          *)
(*                                                                         *)
(*   Part I   TranslationPipeline (app/pipeline.py): the per-line handler  *)
(*            _on_new_line, update_config, load_history, run either by     *)
(*            one caller at a time (SpecPipe) or by the scanner thread and *)
(*            the file-watcher thread concurrently (SpecRace).             *)
(*   Part II  WoWAddonBufReader (app/memory_reader.py): the attach / find  *)
(*            / poll loop over the game's memory (SpecScan, SpecScanFair). *)
(*   Part III the cache, the translator and the token shield as units      *)
(*            (SpecCache, SpecTranslate, SpecShield).                      *)
(*   Part IV  ChatLogWatcher (app/watcher.py) over a file that grows, is   *)
(*            cut, removed and created again (SpecWatch).                  *)
(*   Part V   phrasebook.lookup (SpecLookup).                              *)
(*   Part VI  parse_line and the lines made of legacy buffer entries       *)
(*            (SpecParse).                                                 *)
(*   Part VII AppConfig.load (SpecConfig).                                 *)
(*   Part VIII two threads in TranslationCache._memory_put (SpecLru) and   *)
(*            TranslationPipeline.stop under running handlers (SpecStop).  *)
(*                                                                         *)
(* Wall-clock time is counted in seconds.                                  *)
(***************************************************************************)
EXTENDS Integers, Sequences, FiniteSets, TLC

VARIABLES
    \* ---- Part I: pipeline ----
    config,          \* TranslationPipeline._config
    det_own,         \* ChatLanguageDetector._own_language
    recent_messages, \* TranslationPipeline._recent_messages (insertion order)
    memory,          \* TranslationCache._memory (LRU order, oldest first)
    db,              \* rows of the sqlite table translations
    now,             \* time.time()
    th,              \* per thread: position and locals of _on_new_line
    emitted,         \* every TranslatedMessage handed to on_message, in order
    returned,        \* the last return of _on_new_line: which line, where
    nlines,          \* number of lines handed to _on_new_line so far
    history,         \* the list load_history returned last
    \* ---- Part II: memory reader ----
    spc,             \* where the thread of _run_loop is
    attached,        \* WoWAddonBufReader._attached
    pm,              \* _pm: 0 for None, else the process the handle is of
    last_seq,        \* _last_seq
    buf_addr,        \* _buf_addr
    cached_region,   \* _cached_region
    all_regions,     \* _all_regions
    region_history,  \* _region_history
    stale_count,     \* _stale_count
    stale_tier,      \* _stale_tier
    pre_reset_texts, \* _pre_reset_texts
    pre_reset_expire,\* _pre_reset_expire, relative to the monotonic clock
    last_rescan,     \* _last_rescan, relative to the monotonic clock
    rescan_interval, \* _rescan_interval
    same_addr_count, \* _same_addr_count
    delivered,       \* every line handed to the callback, in order
    skipped,         \* the lines the reset guard passed over in the last poll
    fresh,           \* attached, and no marker found since
    present,         \* the buffer the first find after the attach found
    visible,         \* payload prefixes of the buffers read so far
    pre_visible,     \* visible as it was when the last reset was detected
    \* ---- the game process ----
    proc_up,         \* a game process is running
    proc_gen,        \* which one
    mem,             \* address -> lines of the buffer string there, or <<>>
    live,            \* address of the helper's current buffer, 0 for none
    session,         \* the helper session
    next_seq,        \* the SEQ the helper gives its next line
    \* ---- Part III: the cache, the translator, the token functions ----
    recency,         \* the keys of the cache in the order of their last use
    latest,          \* per key the value and time of the last put
    cret,            \* the last operation on the cache and what it returned
    tcall,           \* TranslatorService.translate: position and locals
    shield,          \* a text, its masked form and what restore gives
    \* ---- Part IV: the file watcher ----
    wfile,           \* the bytes of the chat log file
    wexists,         \* the file is there
    wpos,            \* ChatLogWatcher._position
    wstarted,        \* start() has run
    wstart,          \* the size of the file when start() ran
    wtrunc,          \* how often the file was cut or removed since start()
    wcount,          \* how many bytes were appended in all
    wlines,          \* every line the watcher handed to its callback
    \* ---- Part V: functions of the phrasebook, the parser, the config ----
    pbk,             \* a phrasebook lookup: the text, the codes, the answer
    prs,             \* a parsed line: where it came from, the message
    cfl,             \* the config file and what AppConfig.load made of it
    \* ---- Part VIII: the threads in the cache, the stop ----
    lru,             \* per thread: its position in TranslationCache._memory_put
    stp              \* TranslationPipeline.stop: position, what it left behind

pvars == <<config, det_own, recent_messages, memory, db, now, th, emitted,
           returned, nlines, history>>

envvars == <<proc_up, proc_gen, mem, live, session, next_seq>>

scanvars == <<spc, attached, pm, last_seq, buf_addr, cached_region,
              all_regions, region_history, stale_count, stale_tier,
              pre_reset_texts, pre_reset_expire, last_rescan,
              rescan_interval, same_addr_count, delivered, skipped, fresh,
              present, visible, pre_visible>>

svars == <<scanvars, envvars>>

cachevars == <<recency, latest, cret>>

wvars == <<wfile, wexists, wpos, wstarted, wstart, wtrunc, wcount, wlines>>

fvars == <<pbk, prs, cfl>>

gvars == <<lru, stp>>

uvars == <<cachevars, tcall, shield, wvars, fvars, gvars>>

-----------------------------------------------------------------------------
(* Bounds of the model.                                                    *)

MaxLines == 2
MaxDedupLines == 3
MaxNow == 45
TickLen == 15
MemorySize == 2
MaxHistory == 2
MaxSeq == 3
MaxResetSeq == 2
MaxSess == 2
MaxProc == 2
MaxBufLines == 2
MaxSameAddr == 4
StallLen == 120
MaxCacheTicks == 3
MaxTextLen == 4
MaxChars == 4
MaxChunk == 2
MaxTrunc == 1
MaxPunct == 2
MaxParts == 2
MaxStaleSeq == 6

-----------------------------------------------------------------------------
(* Program constants.                                                      *)

DedupTtl == 30
DEFAULT_TTL == 604800

-----------------------------------------------------------------------------
(* Small helpers.                                                          *)

Range(s) == {s[i] : i \in 1..Len(s)}

-----------------------------------------------------------------------------
(* Input universe: the raw lines the two sources may hand in.  A line is   *)
(* described by what parse_line makes of it.                               *)

Threads == {"scanner", "watcher"}

ChatLine(a, t, c) == [kind |-> "chat", author |-> a, text |-> t, channel |-> c]

JunkLine == [kind |-> "junk", author |-> "", text |-> "", channel |-> ""]

Lines ==
    { ChatLine("Ally", "gg", "Party"),
      ChatLine("Ally", "gg", "Officer"),
      ChatLine("Hero", "thanks", "Party"),
      ChatLine("Hero", "pull in 5", "Say"),
      ChatLine("Hero", "hola {skull}", "Party"),
      ChatLine("Me", "zerg", "Say"),
      ChatLine("Hero", "salve amice", "Party"),
      ChatLine("Hero", " ", "Party"),
      JunkLine }

NoMsg == [ok |-> FALSE, author |-> "", text |-> "", channel |-> ""]

\* parse_line: None for a line no format matches, else the ChatMessage.
parse_line(line) ==
    IF line.kind = "chat"
    THEN [ok |-> TRUE, author |-> line.author, text |-> line.text,
          channel |-> line.channel]
    ELSE NoMsg

-----------------------------------------------------------------------------
(* Configurations (PipelineConfig).                                        *)

Cfg(ch, own_char, enabled, tgt, own) ==
    [enabled_channels |-> ch, own_character |-> own_char,
     translation_enabled |-> enabled, target_lang |-> tgt,
     own_language |-> own]

Configs ==
    { Cfg({"Party", "Say"}, "", TRUE, "RU", "ENGLISH"),
      Cfg({"Say"}, "Me", FALSE, "EN", "RUSSIAN") }

\* _LINGUA_TO_DEEPL.get(lang, "")
LinguaToDeepl(lang) ==
    CASE lang = "ENGLISH" -> "EN"
      [] lang = "RUSSIAN" -> "RU"
      [] lang = "SPANISH" -> "ES"
      [] OTHER -> ""

\* str.upper() on the language codes in use
Upper(code) ==
    CASE code = "en" -> "EN"
      [] code = "ru" -> "RU"
      [] code = "es" -> "ES"
      [] OTHER -> code

-----------------------------------------------------------------------------
(* Text functions, by their value on the texts of the input universe.      *)

\* clean_message_text: colour codes removed, outer whitespace trimmed
clean_message_text(text) == IF text = " " THEN "" ELSE text

is_empty_or_whitespace(text) == text = ""

\* phrasebook.lookup_abbreviation -> "" stands for None
phrasebook_abbrev(text, tgt) ==
    CASE text = "gg" /\ Upper(tgt) = "RU" -> "horoshaya igra"
      [] OTHER -> ""

\* phrasebook.lookup: language-specific entries first, then abbreviations
phrasebook_lookup(text, src, tgt) ==
    CASE text = "thanks" /\ Upper(src) = "EN" /\ Upper(tgt) = "RU" -> "spasibo"
      [] OTHER -> phrasebook_abbrev(text, tgt)

\* what the lingua detectors answer; "" stands for None
detect_language_of(text) ==
    CASE text = "thanks" -> "ENGLISH"
      [] text = "pull in 5" -> "ENGLISH"
      [] text = "hola {skull}" -> "SPANISH"
      [] text = "salve amice" -> "LATIN"
      [] OTHER -> ""

TextLen(text) ==
    CASE text = "" -> 0
      [] text = "gg" -> 2
      [] text = "hola {skull}" -> 12
      [] text = "zerg" -> 4
      [] OTHER -> 9

SkipPhrases == {"kk", "ok", "lol", "pull", "go"}

CyrillicMajor(text) == FALSE

\* ChatLanguageDetector.detect: "" = None (skip), "UNKNOWN", or a language
detect(text, own) ==
    LET lingua == detect_language_of(text)
        detected == IF lingua = "" /\ CyrillicMajor(text) THEN "RUSSIAN"
                    ELSE lingua
    IN  IF TextLen(text) < 3 THEN ""
        ELSE IF text \in SkipPhrases THEN ""
        ELSE IF detected = "" THEN "UNKNOWN"
        ELSE IF detected = own THEN ""
        ELSE IF detected \in {"BULGARIAN", "UKRAINIAN"} /\ own = "RUSSIAN"
                /\ CyrillicMajor(text) THEN ""
        ELSE detected

-----------------------------------------------------------------------------
(* TranslationResult and the MT adapter's possible outcomes.               *)

NoTr == [isnull |-> TRUE, success |-> FALSE, translated |-> "",
         source_lang |-> "", error |-> ""]

Tr(text, src, ok, err) ==
    [isnull |-> FALSE, success |-> ok, translated |-> text,
     source_lang |-> src, error |-> err]

\* the text DeepL returns for a masked text and target
MtText(text, tgt) ==
    CASE text = "hola __WCT0__" /\ Upper(tgt) = "RU" -> "privet __WCT0__"
      [] text = "hola __WCT0__" /\ Upper(tgt) = "EN" -> "hello __WCT0__"
      [] text = "zerg" -> "zerg rush"
      [] OTHER -> "mt text"

\* TranslatorService.translate: success with the detected source, quota
\* exceeded, or retries exhausted (failures keep the original text)
MtOutcomes(text, tgt, src) ==
    { Tr(MtText(text, tgt), d, TRUE, "") :
          d \in (IF src = "" THEN {"EN", "RU", "ES"} ELSE {src}) }
    \cup { Tr(text, src, FALSE, "quota_exceeded"),
           Tr(text, src, FALSE, "max_retries_exceeded") }

\* strip_for_translation: the masked text and the replacement list
strip_for_translation(text) ==
    IF text = "hola {skull}"
    THEN [masked |-> "hola __WCT0__", repl |-> <<<<"__WCT0__", "{skull}">>>>]
    ELSE [masked |-> text, repl |-> <<>>]

\* restore_tokens: every placeholder of the list replaced by its original
restore_tokens(text, repl) ==
    IF repl = <<>> THEN text
    ELSE CASE text = "privet __WCT0__" -> "privet {skull}"
           [] text = "hello __WCT0__" -> "hello {skull}"
           [] OTHER -> text

-----------------------------------------------------------------------------
(* TranslationCache: in-memory LRU over the persistent table.              *)

CacheKey(text, src, tgt) == <<text, Upper(src), Upper(tgt)>>

MemHas(m, key) == \E i \in 1..Len(m) : m[i].key = key

MemEntry(m, key) == CHOOSE e \in Range(m) : e.key = key

MemDrop(m, key) == SelectSeq(m, LAMBDA e : e.key # key)

\* faulty _memory_put: the newest entry is evicted when full
MemoryPutNewest(m, key, value, ts) ==
    IF MemHas(m, key)
    THEN Append(MemDrop(m, key), [key |-> key, val |-> value, ts |-> ts])
    ELSE Append(IF Len(m) >= MemorySize THEN SubSeq(m, 1, Len(m) - 1) ELSE m,
                [key |-> key, val |-> value, ts |-> ts])

\* _memory_put: refresh and move to the end, or evict the oldest when full
MemoryPut(m, key, value, ts) ==
    IF MemHas(m, key)
    THEN Append(MemDrop(m, key), [key |-> key, val |-> value, ts |-> ts])
    ELSE Append(IF Len(m) >= MemorySize THEN Tail(m) ELSE m,
                [key |-> key, val |-> value, ts |-> ts])

DbHas(d, key) == \E r \in d : r.key = key

DbRow(d, key) == CHOOSE r \in d : r.key = key

\* faulty get: a row of the table is returned whatever its age
CacheGetStale(m, d, key, t) ==
    LET fresh_hit == MemHas(m, key) /\ ~(t - MemEntry(m, key).ts > DEFAULT_TTL)
        m1   == IF MemHas(m, key) /\ ~fresh_hit THEN MemDrop(m, key) ELSE m
    IN  IF fresh_hit
        THEN [hit |-> TRUE, val |-> MemEntry(m, key).val,
              mem |-> Append(MemDrop(m, key), MemEntry(m, key)), db |-> d]
        ELSE IF ~DbHas(d, key)
        THEN [hit |-> FALSE, val |-> "", mem |-> m1, db |-> d]
        ELSE [hit |-> TRUE, val |-> DbRow(d, key).val,
              mem |-> MemoryPut(m1, key, DbRow(d, key).val, DbRow(d, key).ts),
              db |-> d]

\* TranslationCache.get: hit flag, value, and both layers afterwards
CacheGet(m, d, key, t) ==
    LET fresh_hit == MemHas(m, key) /\ ~(t - MemEntry(m, key).ts > DEFAULT_TTL)
        m1   == IF MemHas(m, key) /\ ~fresh_hit THEN MemDrop(m, key) ELSE m
    IN  IF fresh_hit
        THEN [hit |-> TRUE, val |-> MemEntry(m, key).val,
              mem |-> Append(MemDrop(m, key), MemEntry(m, key)), db |-> d]
        ELSE IF ~DbHas(d, key)
        THEN [hit |-> FALSE, val |-> "", mem |-> m1, db |-> d]
        ELSE IF t - DbRow(d, key).ts > DEFAULT_TTL
        THEN [hit |-> FALSE, val |-> "", mem |-> m1,
              db |-> d \ {DbRow(d, key)}]
        ELSE [hit |-> TRUE, val |-> DbRow(d, key).val,
              mem |-> MemoryPut(m1, key, DbRow(d, key).val, DbRow(d, key).ts),
              db |-> d]

\* faulty put: nothing is stored
CachePutLost(m, d, key, value, t) == [mem |-> m, db |-> d]

\* faulty put: the LRU only
CachePutMemoryOnly(m, d, key, value, t) ==
    [mem |-> MemoryPut(m, key, value, t), db |-> d]

\* TranslationCache.put: both layers, INSERT OR REPLACE in the table
CachePut(m, d, key, value, t) ==
    [mem |-> MemoryPut(m, key, value, t),
     db  |-> {r \in d : r.key # key}
                \cup {[key |-> key, val |-> value, ts |-> t]}]

-----------------------------------------------------------------------------
(* TranslationPipeline._on_new_line, one action per step of the handler.   *)

\* a handler invocation: its position, its locals, and what it read of the
\* configuration at each test (enabled_channels at line 225, own_character
\* at 230, translation_enabled at 235, the detector's own language at 261)
Idle == [pc |-> "idle", id |-> 0, msg |-> NoMsg, now |-> 0, dup |-> FALSE,
         enabled |-> {}, own_character |-> "", translation_enabled |-> FALSE,
         own_language |-> "",
         cleaned |-> "", target_lang |-> "", source_lang |-> "",
         result |-> NoTr, mt |-> 0]

NoReturn == [id |-> 0, key |-> <<"", "">>, arr |-> 0, channel |-> "",
             why |-> "none"]

DedupKey(msg) == <<msg.author, msg.text>>

\* dedup_key in self._recent_messages
DedupHit(rm, key) == \E i \in 1..Len(rm) : rm[i].key = key

\* self._recent_messages[dedup_key] = now
DedupInsert(rm, key, t) ==
    IF DedupHit(rm, key)
    THEN [i \in 1..Len(rm) |->
             IF rm[i].key = key THEN [key |-> key, ts |-> t] ELSE rm[i]]
    ELSE Append(rm, [key |-> key, ts |-> t])

\* faulty eviction: the front goes as soon as it is older than the newest line
DedupEvictEager(rm, t) ==
    IF rm # <<>> /\ t - Head(rm).ts > 0 THEN Tail(rm) ELSE rm

\* while the front is older than the TTL: pop it
RECURSIVE DedupEvict(_, _)
DedupEvict(rm, t) ==
    IF rm # <<>> /\ t - Head(rm).ts > DedupTtl
    THEN DedupEvict(Tail(rm), t)
    ELSE rm

\* faulty filter: every channel passes
ChannelAny(cfg, msg) == TRUE

\* msg.channel in self._config.enabled_channels
ChannelEnabled(cfg, msg) == msg.channel \in cfg.enabled_channels

\* the handler goes on to its next step
Goto(t, next) ==
    /\ th' = [th EXCEPT ![t] = next]
    /\ UNCHANGED returned

\* a return statement of the handler
Return(t, why) ==
    /\ th' = [th EXCEPT ![t] = Idle]
    /\ returned' = [id |-> th[t].id, key |-> DedupKey(th[t].msg),
                    arr |-> th[t].now, channel |-> th[t].msg.channel,
                    why |-> why]

\* self._on_message(TranslatedMessage(...))
OnMessage(t, tr, why) ==
    emitted' = Append(emitted,
        [id |-> th[t].id, key |-> DedupKey(th[t].msg), arr |-> th[t].now,
         channel |-> th[t].msg.channel, enabled |-> th[t].enabled,
         tr |-> tr, mt |-> th[t].mt, path |-> why])

\* self._on_message(...); return
Emit(t, tr, why) == OnMessage(t, tr, why) /\ Return(t, why)

\* lines 199-211: parse, take the time
Deliver(t, line) ==
    /\ th[t].pc = "idle"
    /\ nlines' = nlines + 1
    /\ LET msg == parse_line(line)
       IN  IF msg.ok
           THEN Goto(t, [Idle EXCEPT !.pc = "dedup", !.id = nlines + 1,
                                     !.msg = msg, !.now = now])
           ELSE /\ th' = [th EXCEPT ![t] = Idle]
                /\ returned' = [NoReturn EXCEPT !.id = nlines + 1,
                                                !.why = "unparsed"]
    /\ history' = <<>>
    /\ UNCHANGED <<config, det_own, recent_messages, memory, db, now,
                   emitted>>

\* lines 212-214
StepDedupCheck(t) ==
    /\ th[t].pc = "dedup"
    /\ LET dup == DedupHit(recent_messages, DedupKey(th[t].msg))
       IN  IF dup
           THEN Return(t, "duplicate")
           ELSE Goto(t, [th[t] EXCEPT !.pc = "insert", !.dup = dup])
    /\ UNCHANGED <<config, det_own, recent_messages, memory, db, now,
                   emitted, nlines, history>>

\* lines 215-222
StepDedupInsert(t) ==
    /\ th[t].pc = "insert"
    /\ recent_messages' =
         DedupEvict(DedupInsert(recent_messages, DedupKey(th[t].msg),
                                th[t].now), th[t].now)
    /\ Goto(t, [th[t] EXCEPT !.pc = "filter"])
    /\ UNCHANGED <<config, det_own, memory, db, now, emitted, nlines, history>>

\* lines 224-227
StepFilter(t) ==
    /\ th[t].pc = "filter"
    /\ IF ChannelEnabled(config, th[t].msg)
       THEN Goto(t, [th[t] EXCEPT !.pc = "own",
                                  !.enabled = config.enabled_channels])
       ELSE Return(t, "channel")
    /\ UNCHANGED <<config, det_own, recent_messages, memory, db, now,
                   emitted, nlines, history>>

\* lines 229-232
StepOwn(t) ==
    /\ th[t].pc = "own"
    /\ IF config.own_character # "" /\ th[t].msg.author = config.own_character
       THEN Emit(t, NoTr, "own")
       ELSE /\ Goto(t, [th[t] EXCEPT !.pc = "disabled",
                            !.own_character = config.own_character])
            /\ UNCHANGED emitted
    /\ UNCHANGED <<config, det_own, recent_messages, memory, db, now,
                   nlines, history>>

\* lines 234-237
StepDisabled(t) ==
    /\ th[t].pc = "disabled"
    /\ IF ~config.translation_enabled
       THEN Emit(t, NoTr, "disabled")
       ELSE /\ Goto(t, [th[t] EXCEPT !.pc = "abbrev",
                            !.translation_enabled = config.translation_enabled])
            /\ UNCHANGED emitted
    /\ UNCHANGED <<config, det_own, recent_messages, memory, db, now,
                   nlines, history>>

\* lines 239-258
StepAbbrev(t) ==
    /\ th[t].pc = "abbrev"
    /\ LET cleaned == clean_message_text(th[t].msg.text)
           tgt     == config.target_lang
           hit     == phrasebook_abbrev(cleaned, tgt)
       IN  IF is_empty_or_whitespace(cleaned)
           THEN Return(t, "empty") /\ UNCHANGED emitted
           ELSE IF hit # ""
           THEN Emit(t, Tr(hit, "", TRUE, ""), "abbrev")
           ELSE /\ Goto(t, [th[t] EXCEPT !.pc = "detect",
                                         !.cleaned = cleaned,
                                         !.target_lang = tgt])
                /\ UNCHANGED emitted
    /\ UNCHANGED <<config, det_own, recent_messages, memory, db, now,
                   nlines, history>>

\* lines 260-278
StepDetect(t) ==
    /\ th[t].pc = "detect"
    /\ LET detected == detect(th[t].cleaned, det_own)
           src == IF detected = "UNKNOWN" THEN "" ELSE LinguaToDeepl(detected)
       IN  IF detected = ""
           THEN Emit(t, NoTr, "skip")
           ELSE IF detected # "UNKNOWN" /\ src = ""
           THEN Emit(t, NoTr, "unmapped")
           ELSE /\ Goto(t, [th[t] EXCEPT !.pc = "phrasebook",
                                         !.source_lang = src,
                                         !.own_language = det_own])
                /\ UNCHANGED emitted
    /\ UNCHANGED <<config, det_own, recent_messages, memory, db, now,
                   nlines, history>>

\* faulty phrasebook step: the hit is emitted but the handler goes on
StepPhrasebookNoReturn(t) ==
    /\ th[t].pc = "phrasebook"
    /\ LET hit == phrasebook_lookup(th[t].cleaned, th[t].source_lang,
                                    th[t].target_lang)
       IN  /\ Goto(t, [th[t] EXCEPT !.pc = "cache"])
           /\ IF hit # ""
              THEN OnMessage(t, Tr(hit, th[t].source_lang, TRUE, ""),
                             "phrasebook")
              ELSE UNCHANGED emitted
    /\ UNCHANGED <<config, det_own, recent_messages, memory, db, now,
                   nlines, history>>

\* lines 280-291
StepPhrasebook(t) ==
    /\ th[t].pc = "phrasebook"
    /\ LET hit == phrasebook_lookup(th[t].cleaned, th[t].source_lang,
                                    th[t].target_lang)
       IN  IF hit # ""
           THEN Emit(t, Tr(hit, th[t].source_lang, TRUE, ""), "phrasebook")
           ELSE /\ Goto(t, [th[t] EXCEPT !.pc = "cache"])
                /\ UNCHANGED emitted
    /\ UNCHANGED <<config, det_own, recent_messages, memory, db, now,
                   nlines, history>>

\* lines 293-304
StepCache(t) ==
    /\ th[t].pc = "cache"
    /\ LET got == CacheGet(memory, db,
                      CacheKey(th[t].cleaned, th[t].source_lang,
                               th[t].target_lang), now)
       IN  /\ memory' = got.mem
           /\ db' = got.db
           /\ IF got.hit
              THEN Emit(t, Tr(got.val, th[t].source_lang, TRUE, ""), "cache")
              ELSE /\ Goto(t, [th[t] EXCEPT !.pc = "mt"])
                   /\ UNCHANGED emitted
    /\ UNCHANGED <<config, det_own, recent_messages, now, nlines, history>>

\* lines 306-317: mask, then the blocking call of the MT adapter
StepMT(t) ==
    /\ th[t].pc = "mt"
    /\ \E out \in MtOutcomes(strip_for_translation(th[t].cleaned).masked,
                             th[t].target_lang, th[t].source_lang) :
          Goto(t, [th[t] EXCEPT !.pc = "finish", !.result = out,
                                !.mt = @ + 1])
    /\ UNCHANGED <<config, det_own, recent_messages, memory, db, now,
                   emitted, nlines, history>>

\* faulty finish: the result is cached before the self-check
StepFinishCacheFirst(t) ==
    /\ th[t].pc = "finish"
    /\ LET res  == th[t].result
           src  == th[t].source_lang
           repl == strip_for_translation(th[t].cleaned).repl
           own_deepl == LinguaToDeepl(config.own_language)
           final == IF res.success /\ repl # <<>>
                    THEN Tr(restore_tokens(res.translated, repl),
                            res.source_lang, TRUE, "")
                    ELSE res
           put == CachePut(memory, db,
                      CacheKey(th[t].cleaned,
                               IF src # "" THEN src ELSE final.source_lang,
                               th[t].target_lang),
                      final.translated, now)
       IN  /\ memory' = (IF final.success THEN put.mem ELSE memory)
           /\ db' = (IF final.success THEN put.db ELSE db)
           /\ IF res.success /\ src = "" /\ res.source_lang = own_deepl
              THEN Emit(t, NoTr, "selfcheck")
              ELSE Emit(t, final, "mt")
    /\ UNCHANGED <<config, det_own, recent_messages, now, nlines, history>>

\* faulty finish: the result is cached whether the call succeeded or not
StepFinishCacheAll(t) ==
    /\ th[t].pc = "finish"
    /\ LET res  == th[t].result
           src  == th[t].source_lang
           repl == strip_for_translation(th[t].cleaned).repl
           own_deepl == LinguaToDeepl(config.own_language)
           final == IF res.success /\ repl # <<>>
                    THEN Tr(restore_tokens(res.translated, repl),
                            res.source_lang, TRUE, "")
                    ELSE res
           put == CachePut(memory, db,
                      CacheKey(th[t].cleaned,
                               IF src # "" THEN src ELSE final.source_lang,
                               th[t].target_lang),
                      final.translated, now)
       IN  IF res.success /\ src = "" /\ res.source_lang = own_deepl
           THEN Emit(t, NoTr, "selfcheck") /\ UNCHANGED <<memory, db>>
           ELSE /\ Emit(t, final, "mt")
                /\ memory' = put.mem
                /\ db' = put.db
    /\ UNCHANGED <<config, det_own, recent_messages, now, nlines, history>>

\* lines 319-342
StepFinish(t) ==
    /\ th[t].pc = "finish"
    /\ LET res  == th[t].result
           src  == th[t].source_lang
           repl == strip_for_translation(th[t].cleaned).repl
           own_deepl == LinguaToDeepl(config.own_language)
           final == IF res.success /\ repl # <<>>
                    THEN Tr(restore_tokens(res.translated, repl),
                            res.source_lang, TRUE, "")
                    ELSE res
           put == CachePut(memory, db,
                      CacheKey(th[t].cleaned,
                               IF src # "" THEN src ELSE final.source_lang,
                               th[t].target_lang),
                      final.translated, now)
       IN  IF res.success /\ src = "" /\ res.source_lang = own_deepl
           THEN Emit(t, NoTr, "selfcheck") /\ UNCHANGED <<memory, db>>
           ELSE /\ Emit(t, final, "mt")
                /\ memory' = (IF final.success THEN put.mem ELSE memory)
                /\ db' = (IF final.success THEN put.db ELSE db)
    /\ UNCHANGED <<config, det_own, recent_messages, now, nlines, history>>

\* the steps of one handler invocation after the parse
Step(t) ==
    \/ StepDedupCheck(t)
    \/ StepDedupInsert(t)
    \/ StepFilter(t)
    \/ StepOwn(t)
    \/ StepDisabled(t)
    \/ StepAbbrev(t)
    \/ StepDetect(t)
    \/ StepPhrasebook(t)
    \/ StepCache(t)
    \/ StepMT(t)
    \/ StepFinish(t)

AllIdle == \A t \in Threads : th[t].pc = "idle"

\* update_config (lines 142-155), called from the main thread at any moment
UpdateConfig(cfg) ==
    /\ cfg # config
    /\ config' = cfg
    /\ det_own' = cfg.own_language
    /\ history' = <<>>
    /\ UNCHANGED <<recent_messages, memory, db, now, th, emitted, returned,
                   nlines>>

\* the loop of load_history (lines 160-168) over the lines read_tail gave
RECURSIVE HistoryOf(_, _)
HistoryOf(cfg, ls) ==
    IF ls = <<>> THEN <<>>
    ELSE LET msg == parse_line(Head(ls))
         IN  IF ~msg.ok THEN HistoryOf(cfg, Tail(ls))
             ELSE IF ~ChannelEnabled(cfg, msg) THEN HistoryOf(cfg, Tail(ls))
             ELSE <<[msg |-> msg, tr |-> NoTr]>> \o HistoryOf(cfg, Tail(ls))

\* load_history (lines 157-168), called before the live feed starts
LoadHistory(tail) ==
    /\ AllIdle
    /\ nlines = 0
    /\ history' = HistoryOf(config, tail)
    /\ history' # history
    /\ UNCHANGED <<config, det_own, recent_messages, memory, db, now, th,
                   emitted, returned, nlines>>

\* the wall clock advances
Tick ==
    /\ now + TickLen <= MaxNow
    /\ now' = now + TickLen
    /\ history' = <<>>
    /\ UNCHANGED <<config, det_own, recent_messages, memory, db, th, emitted,
                   returned, nlines>>

InitPipe ==
    /\ config \in Configs
    /\ det_own = config.own_language
    /\ recent_messages = <<>>
    /\ memory = <<>>
    /\ db \in {{}, {[key |-> CacheKey("hola {skull}", "ES", "RU"),
                     val |-> "privet {skull}", ts |-> 0]}}
    /\ now = 0
    /\ th = [t \in Threads |-> Idle]
    /\ emitted = <<>>
    /\ returned = NoReturn
    /\ nlines = 0
    /\ history = <<>>

-----------------------------------------------------------------------------
(* Part II: WoWAddonBufReader.                                             *)
(*                                                                         *)
(* Monotonic time is counted in half seconds.  The two time stamps the     *)
(* reader keeps (_last_rescan, _pre_reset_expire) are held relative to the *)
(* current monotonic time and saturate where the code can no longer tell   *)
(* the difference: _last_rescan at one rescan interval ago (the interval   *)
(* only grows in the rescan that sets _last_rescan), _pre_reset_expire     *)
(* once it has passed, _same_addr_count at the top of the interval ladder. *)

POLL_INTERVAL == 1
ATTACH_RETRY_INTERVAL == 10
SCAN_RETRY_INTERVAL == 4
REGION_HISTORY_SIZE == 16
RESCAN_INTERVALS == <<4, 10, 20, 60>>
HeapRegionMax == 8
ResetWindow == 120
StaleThresholdMax == 16
PrefixLen == 200
SameAddrCap == 9

\* a payload: its length and what its first 200 code units and its rest are
Payload(h, t, n) == [head |-> h, tail |-> t, len |-> n]

Payloads == { Payload("p", "x", 201), Payload("p", "y", 201),
              Payload("q", "", 20) }

TwoPayloads == {Payload("p", "x", 201), Payload("q", "", 20)}

\* payload[:200]
Prefix(p) == IF p.len <= PrefixLen THEN p ELSE Payload(p.head, "", PrefixLen)

\* the regions of the game process: base and size in MiB; a buffer string
\* can sit at the addresses BufAddrs
AllRegions == << [base |-> 1, size |-> 2], [base |-> 3, size |-> 1],
                 [base |-> 4, size |-> 9] >>

BufAddrs == {1, 2, 3, 4}

NoRegion == [base |-> 0, size |-> 0]

\* one line SEQ|RAW|PAYLOAD of a buffer; sess tells which helper session
\* wrote it and is not part of the bytes
BufLine(s, p, g) == [seq |-> s, payload |-> p, sess |-> g]

Max(a, b) == IF a >= b THEN a ELSE b

Min(a, b) == IF a <= b THEN a ELSE b

\* _extract_max_seq
RECURSIVE extract_max_seq(_)
extract_max_seq(content) ==
    IF content = <<>> THEN 0
    ELSE Max(Head(content).seq, extract_max_seq(Tail(content)))

\* pm.read_bytes succeeds: the handle is of the process that is running
CanRead(up, gen, handle) == up /\ handle # 0 /\ handle = gen

\* the addresses of a region list, in the order the scan meets them
RECURSIVE AddrsOf(_)
AddrsOf(regions) ==
    IF regions = <<>> THEN <<>>
    ELSE LET r == Head(regions)
         IN  SelectSeq(<<1, 2, 3, 4>>,
                       LAMBDA a : r.base <= a /\ a < r.base + r.size)
             \o AddrsOf(Tail(regions))

\* the best (highest max_seq above min_seq) marker among candidates; the
\* first of equals wins
RECURSIVE BestMarker(_, _, _, _, _)
BestMarker(m, cands, min_seq, best_addr, best_seq) ==
    IF cands = <<>> THEN best_addr
    ELSE LET a == Head(cands)
             s == extract_max_seq(m[a])
         IN  IF m[a] # <<>> /\ s > best_seq /\ s > min_seq
             THEN BestMarker(m, Tail(cands), min_seq, a, s)
             ELSE BestMarker(m, Tail(cands), min_seq, best_addr, best_seq)

\* _scan_regions_for_marker: a region that cannot be read is passed over
scan_regions_for_marker(readable, m, regions, min_seq) ==
    IF readable THEN BestMarker(m, AddrsOf(regions), min_seq, 0, -1) ELSE 0

\* _get_memory_regions
get_memory_regions(readable) == IF readable THEN AllRegions ELSE <<>>

\* the regions _scan_heap_regions keeps
HeapRegions(regions) == SelectSeq(regions, LAMBDA r : r.size <= HeapRegionMax)

\* _scan_heap_regions
scan_heap_regions(readable, m, regions, min_seq) ==
    scan_regions_for_marker(readable, m, HeapRegions(regions), min_seq)

\* _full_marker_scan: every match of the pattern in the address space
full_marker_scan(readable, m, min_seq) ==
    IF readable THEN BestMarker(m, <<1, 2, 3, 4>>, min_seq, 0, -1) ELSE 0

\* _find_region_for_addr
find_region_for_addr(regions, addr) ==
    LET hits == SelectSeq(regions,
                    LAMBDA r : r.base <= addr /\ addr < r.base + r.size)
    IN  IF hits = <<>> THEN NoRegion ELSE Head(hits)

\* _record_region_hit: move to front, bounded
record_region_hit(hist, r) ==
    LET moved == <<r>> \o SelectSeq(hist, LAMBDA x : x # r)
    IN  IF Len(moved) > REGION_HISTORY_SIZE
        THEN SubSeq(moved, 1, REGION_HISTORY_SIZE)
        ELSE moved

\* _record_hit_from_addr: the new cached region and history
record_hit_from_addr(regions, hist, cached, addr) ==
    LET r == find_region_for_addr(regions, addr)
    IN  IF r = NoRegion
        THEN [cached |-> cached, hist |-> hist]
        ELSE [cached |-> r, hist |-> record_region_hit(hist, r)]

\* _maybe_skip_existing: the new _last_seq
maybe_skip_existing(readable, m, addr, last) ==
    IF last # 0 THEN last
    ELSE IF ~readable \/ m[addr] = <<>> THEN last
    ELSE IF extract_max_seq(m[addr]) > 0 THEN extract_max_seq(m[addr])
    ELSE last

\* _find_marker: the cascade; addr = 0 when every tier missed
find_marker(readable, m, hist, regions, min_seq) ==
    LET h == IF hist # <<>>
             THEN scan_regions_for_marker(readable, m, hist, min_seq) ELSE 0
        fresh_regions == get_memory_regions(readable)
        p == scan_heap_regions(readable, m, fresh_regions, min_seq)
        f == full_marker_scan(readable, m, min_seq)
    IN  IF h # 0 THEN [addr |-> h, regions |-> regions, tier |-> "history"]
        ELSE IF p # 0
        THEN [addr |-> p, regions |-> fresh_regions, tier |-> "heap"]
        ELSE [addr |-> f, regions |-> fresh_regions, tier |-> "full"]

\* faulty threshold: it does not grow with the tier
StaleThresholdFlat(tier) == 2

\* the stale threshold of _poll_buffer: min(2 << tier, 16)
StaleThreshold(tier) == Min(2 * (2 ^ tier), StaleThresholdMax)

\* faulty ladder: one step up at every rescan
RescanIntervalQuick(count) ==
    RESCAN_INTERVALS[Min(count, Len(RESCAN_INTERVALS) - 1) + 1]

\* the rescan interval _check_for_newer_buffer picks for a count
RescanIntervalFor(count) ==
    RESCAN_INTERVALS[Min(count \div 3, Len(RESCAN_INTERVALS) - 1) + 1]

\* the loop of _deliver_new_messages (lines 722-746, 780) over the lines:
\* last is _last_seq, out the lines handed to the callback, skip the lines
\* the reset guard passed over, raised whether the callback raised
RECURSIVE DeliverLoop(_, _, _, _)
DeliverLoop(lines, texts, raise, acc) ==
    IF lines = <<>> \/ acc.raised THEN acc
    ELSE LET line == Head(lines)
         IN  IF line.seq <= acc.last
             THEN DeliverLoop(Tail(lines), texts, raise, acc)
             ELSE IF texts # {} /\ Prefix(line.payload) \in texts
             THEN DeliverLoop(Tail(lines), texts, raise,
                      [acc EXCEPT !.last = line.seq,
                                  !.skip = Append(@, line)])
             ELSE DeliverLoop(Tail(lines), texts, raise,
                      [acc EXCEPT !.last = line.seq,
                                  !.out = Append(@, line),
                                  !.raised = raise])

\* _deliver_new_messages: what it leaves in the reader's fields
deliver_new_messages(content, last, texts, expire, interval, count, raise) ==
    LET max_seq_in_buf == extract_max_seq(content)
        reset  == max_seq_in_buf > 0 /\ max_seq_in_buf < last
        texts1 == IF reset
                  THEN {Prefix(content[i].payload) : i \in 1..Len(content)}
                  ELSE texts
        exp1   == IF reset THEN ResetWindow ELSE expire
        last1  == IF reset THEN 0 ELSE last
        acc    == DeliverLoop(content, texts1, raise,
                      [last |-> last1, out |-> <<>>, skip |-> <<>>,
                       raised |-> FALSE])
        expired == texts1 # {} /\ exp1 < 0
        flowing == Len(acc.out) > 0
    IN  [ last_seq |-> acc.last,
          texts |-> IF ~acc.raised /\ expired THEN {} ELSE texts1,
          expire |-> exp1,
          interval |-> IF ~acc.raised /\ flowing
                       THEN RESCAN_INTERVALS[1] ELSE interval,
          count |-> IF ~acc.raised /\ flowing THEN 0 ELSE count,
          out |-> acc.out, skip |-> acc.skip, raised |-> acc.raised,
          reset |-> reset ]

\* _check_for_newer_buffer: what it leaves in the reader's fields
check_for_newer_buffer(readable, m, st) ==
    LET h == IF st.hist # <<>>
             THEN scan_regions_for_marker(readable, m, st.hist, 0) ELSE 0
        regions == IF h # 0 THEN st.regions ELSE get_memory_regions(readable)
        new_addr == IF h # 0 THEN h
                    ELSE scan_heap_regions(readable, m, regions, 0)
        hit == record_hit_from_addr(regions, st.hist, st.cached, new_addr)
    IN  IF new_addr # 0 /\ new_addr # st.addr
        THEN [st EXCEPT !.addr = new_addr, !.stale_count = 0,
                        !.stale_tier = 0, !.count = 0,
                        !.interval = RESCAN_INTERVALS[1],
                        !.regions = regions,
                        !.cached = hit.cached, !.hist = hit.hist]
        ELSE [st EXCEPT !.regions = regions,
                        !.count = Min(st.count + 1, SameAddrCap),
                        !.interval = RescanIntervalFor(st.count + 1)]

\* whether read_bytes through the reader's handle succeeds now
Readable == CanRead(proc_up, proc_gen, pm)

\* the reader's fields _check_for_newer_buffer works on
ReaderState(interval, count) ==
    [addr |-> buf_addr, stale_count |-> 0, stale_tier |-> 0,
     count |-> count, interval |-> interval, regions |-> all_regions,
     cached |-> cached_region, hist |-> region_history]

\* monotonic time moves on by d half seconds
Advance(d) ==
    /\ last_rescan' = Max(last_rescan - d, 0 - rescan_interval)
    /\ pre_reset_expire' = Max(pre_reset_expire - d, -1)

\* _detach (lines 305-316)
Detach ==
    /\ pm' = 0
    /\ attached' = FALSE
    /\ buf_addr' = 0
    /\ cached_region' = NoRegion
    /\ all_regions' = <<>>
    /\ stale_count' = 0

\* start (lines 224-229)
Start ==
    /\ spc = "stopped"
    /\ spc' = "step"
    /\ UNCHANGED <<attached, pm, last_seq, buf_addr, cached_region,
                   all_regions, region_history, stale_count, stale_tier,
                   pre_reset_texts, pre_reset_expire, last_rescan,
                   rescan_interval, same_addr_count, delivered, skipped,
                   fresh, present, visible, pre_visible, envvars>>

\* stop (lines 231-237): the loop leaves at its next test of the event
Stop ==
    /\ spc \in {"step", "wait_attach", "wait_scan", "wait_poll"}
    /\ spc' = "stopped"
    /\ Detach
    /\ UNCHANGED <<last_seq, region_history, stale_tier, pre_reset_texts,
                   pre_reset_expire, last_rescan, rescan_interval,
                   same_addr_count, delivered, skipped, fresh, present,
                   visible, pre_visible, envvars>>

\* _run_loop step 1 (lines 243-249) with _attach (283-303)
StepAttach ==
    /\ spc = "step"
    /\ ~attached
    /\ IF proc_up
       THEN /\ pm' = proc_gen
            /\ attached' = TRUE
            /\ all_regions' = get_memory_regions(TRUE)
            /\ fresh' = TRUE
            /\ present' = <<>>
            /\ spc' = "step"
       ELSE /\ spc' = "wait_attach"
            /\ UNCHANGED <<pm, attached, all_regions, fresh, present>>
    /\ UNCHANGED <<last_seq, buf_addr, cached_region, region_history,
                   stale_count, stale_tier, pre_reset_texts,
                   pre_reset_expire, last_rescan, rescan_interval,
                   same_addr_count, delivered, skipped, visible,
                   pre_visible, envvars>>

\* _run_loop step 2 (lines 252-265) with _find_marker (417-482)
StepFind ==
    /\ spc = "step"
    /\ attached
    /\ buf_addr = 0
    /\ LET r == find_marker(Readable, mem, region_history, all_regions, 0)
           hit == record_hit_from_addr(r.regions, region_history,
                                       cached_region, r.addr)
       IN  /\ all_regions' = r.regions
           /\ IF r.addr # 0
              THEN /\ buf_addr' = r.addr
                   /\ stale_count' = 0
                   /\ cached_region' = hit.cached
                   /\ region_history' = hit.hist
                   /\ last_seq' = maybe_skip_existing(Readable, mem, r.addr,
                                                      last_seq)
                   /\ fresh' = FALSE
                   /\ present' = IF fresh THEN mem[r.addr] ELSE present
                   /\ visible' = visible \cup
                         {Prefix(mem[r.addr][i].payload) :
                              i \in 1..Len(mem[r.addr])}
                   /\ spc' = "step"
              ELSE /\ spc' = "wait_scan"
                   /\ UNCHANGED <<buf_addr, stale_count, cached_region,
                                  region_history, last_seq, fresh, present,
                                  visible>>
    /\ UNCHANGED <<attached, pm, stale_tier, pre_reset_texts,
                   pre_reset_expire, last_rescan, rescan_interval,
                   same_addr_count, delivered, skipped, pre_visible, envvars>>

\* _poll_buffer when the read gives nothing (lines 657-674)
PollStale ==
    LET threshold == StaleThreshold(stale_tier)
    IN  /\ IF stale_count + 1 >= threshold
           THEN /\ stale_tier' = stale_tier + 1
                /\ buf_addr' = 0
                /\ stale_count' = 0
           ELSE /\ stale_count' = stale_count + 1
                /\ UNCHANGED <<stale_tier, buf_addr>>
        /\ skipped' = <<>>
        /\ spc' = "wait_poll"
        /\ UNCHANGED <<last_seq, cached_region, all_regions, region_history,
                       pre_reset_texts, pre_reset_expire, last_rescan,
                       rescan_interval, same_addr_count, delivered, visible,
                       pre_visible>>

\* _poll_buffer when the read gives a buffer (lines 676-688)
PollContent(content, raise) ==
    LET d == deliver_new_messages(content, last_seq, pre_reset_texts,
                 pre_reset_expire, rescan_interval, same_addr_count, raise)
        due == 0 - last_rescan >= d.interval
        st == ReaderState(d.interval, d.count)
        c == IF ~d.raised /\ due
             THEN check_for_newer_buffer(Readable, mem, st) ELSE st
    IN  /\ last_seq' = d.last_seq
        /\ pre_reset_texts' = d.texts
        /\ pre_reset_expire' = d.expire
        /\ delivered' = delivered \o d.out
        /\ skipped' = d.skip
        /\ pre_visible' = IF d.reset THEN visible ELSE pre_visible
        /\ visible' = visible \cup
              {Prefix(content[i].payload) : i \in 1..Len(content)}
        /\ last_rescan' = IF ~d.raised /\ due THEN 0 ELSE last_rescan
        /\ buf_addr' = c.addr
        /\ stale_count' = c.stale_count
        /\ stale_tier' = c.stale_tier
        /\ same_addr_count' = c.count
        /\ rescan_interval' = c.interval
        /\ all_regions' = c.regions
        /\ cached_region' = c.cached
        /\ region_history' = c.hist
        /\ spc' = IF d.raised THEN "except" ELSE "wait_poll"

\* _run_loop step 3 (lines 268-277) with _poll_buffer (646-688)
StepPoll(raise) ==
    /\ spc = "step"
    /\ attached
    /\ buf_addr # 0
    /\ LET content == IF Readable THEN mem[buf_addr] ELSE <<>>
       IN  IF content = <<>> THEN PollStale ELSE PollContent(content, raise)
    /\ UNCHANGED <<attached, pm, fresh, present, envvars>>

\* the except branch of step 3 (lines 270-275)
StepExcept ==
    /\ spc = "except"
    /\ IF ~Readable
       THEN /\ Detach
            /\ spc' = "step"
       ELSE /\ spc' = "wait_poll"
            /\ UNCHANGED <<pm, attached, buf_addr, cached_region,
                           all_regions, stale_count>>
    /\ UNCHANGED <<last_seq, region_history, stale_tier, pre_reset_texts,
                   pre_reset_expire, last_rescan, rescan_interval,
                   same_addr_count, delivered, skipped, fresh, present,
                   visible, pre_visible, envvars>>

\* self._stop_event.wait(interval) returns after its time, or after a stall
WaitDone(stall) ==
    /\ spc \in {"wait_attach", "wait_scan", "wait_poll"}
    /\ LET interval == CASE spc = "wait_attach" -> ATTACH_RETRY_INTERVAL
                         [] spc = "wait_scan" -> SCAN_RETRY_INTERVAL
                         [] OTHER -> POLL_INTERVAL
       IN  Advance(interval + stall)
    /\ spc' = "step"
    /\ UNCHANGED <<attached, pm, last_seq, buf_addr, cached_region,
                   all_regions, region_history, stale_count, stale_tier,
                   pre_reset_texts, rescan_interval, same_addr_count,
                   delivered, skipped, fresh, present, visible, pre_visible,
                   envvars>>

-----------------------------------------------------------------------------
(* The game process and the helper inside it.                              *)

LastN(s, n) == IF Len(s) <= n THEN s ELSE SubSeq(s, Len(s) - n + 1, Len(s))

\* the helper takes a chat event: it rebuilds the buffer as a new string at
\* a new address; the old string lingers
HelperMessage(p, a) ==
    /\ proc_up
    /\ mem[a] = <<>>
    /\ a # live
    /\ LET cur == IF live = 0 THEN <<>> ELSE mem[live]
           content == LastN(Append(cur, BufLine(next_seq, p, session)),
                            MaxBufLines)
       IN  mem' = [mem EXCEPT ![a] = content]
    /\ live' = a
    /\ next_seq' = next_seq + 1
    /\ UNCHANGED <<proc_up, proc_gen, session, scanvars>>

\* the in-game collector reclaims a string that is no longer the buffer
Collect(a) ==
    /\ a # live
    /\ mem[a] # <<>>
    /\ mem' = [mem EXCEPT ![a] = <<>>]
    /\ UNCHANGED <<proc_up, proc_gen, live, session, next_seq, scanvars>>

\* /reload: the helper starts a new session, SEQ starts from 1 again
Reload ==
    /\ proc_up
    /\ next_seq > 1
    /\ session' = session + 1
    /\ next_seq' = 1
    /\ live' = 0
    /\ UNCHANGED <<proc_up, proc_gen, mem, scanvars>>

\* the game process exits
ProcExit ==
    /\ proc_up
    /\ proc_up' = FALSE
    /\ mem' = [a \in BufAddrs |-> <<>>]
    /\ live' = 0
    /\ UNCHANGED <<proc_gen, session, next_seq, scanvars>>

\* a new game process starts, and with it a new helper session
ProcStart ==
    /\ ~proc_up
    /\ proc_up' = TRUE
    /\ proc_gen' = proc_gen + 1
    /\ session' = session + 1
    /\ next_seq' = 1
    /\ UNCHANGED <<mem, live, scanvars>>

InitScan ==
    /\ spc = "stopped"
    /\ attached = FALSE
    /\ pm = 0
    /\ last_seq = 0
    /\ buf_addr = 0
    /\ cached_region = NoRegion
    /\ all_regions = <<>>
    /\ region_history = <<>>
    /\ stale_count = 0
    /\ stale_tier = 0
    /\ pre_reset_texts = {}
    /\ pre_reset_expire = -1
    /\ last_rescan = 0 - RESCAN_INTERVALS[1]
    /\ rescan_interval = RESCAN_INTERVALS[1]
    /\ same_addr_count = 0
    /\ delivered = <<>>
    /\ skipped = <<>>
    /\ fresh = FALSE
    /\ present = <<>>
    /\ visible = {}
    /\ pre_visible = {}
    /\ proc_up = TRUE
    /\ proc_gen = 1
    /\ mem = [a \in BufAddrs |-> <<>>]
    /\ live = 0
    /\ session = 1
    /\ next_seq = 1

-----------------------------------------------------------------------------
(* Part III: TranslationCache, TranslatorService and the token functions,  *)
(* each on its own.                                                        *)
(*                                                                         *)
(* TranslationCache: put, get, cleanup and close / reopen on one file,     *)
(* with the cache of Part I (memory, db, now).  The clock moves in steps   *)
(* of half a TTL, so that an entry is met at an age of exactly one TTL.    *)

\* the texts, the two spellings of a language pair, the translations
CacheTexts == {"a", "b", "c"}

CacheCodes == { <<"en", "ru">>, <<"EN", "RU">> }

CacheVals == {"v1", "v2"}

CacheTickLen == DEFAULT_TTL \div 2

\* the key moved to the most recently used end of the record of uses
Touch(rec, key) == Append(SelectSeq(rec, LAMBDA k : k # key), key)

\* the position of a key in the record of uses (later = used more recently)
LastUse(rec, key) == CHOOSE i \in 1..Len(rec) : rec[i] = key

\* the keys of the LRU
MemKeys(m) == {m[i].key : i \in 1..Len(m)}

\* what stays of the record of the last operation
NoCacheOp == [op |-> "none", key |-> <<"", "", "">>, hit |-> FALSE,
              val |-> "", count |-> 0, evicted |-> {}]

pipe_rest == <<config, det_own, recent_messages, th, emitted, returned,
               nlines, history>>

\* TranslationCache.put
Put(text, src, tgt, v) ==
    LET key == CacheKey(text, src, tgt)
        put == CachePut(memory, db, key, v, now)
    IN  /\ memory' = put.mem
        /\ db' = put.db
        /\ recency' = Touch(recency, key)
        /\ latest' = {e \in latest : e.key # key}
                        \cup {[key |-> key, val |-> v, ts |-> now]}
        /\ cret' = [NoCacheOp EXCEPT !.op = "put", !.key = key, !.val = v,
                        !.evicted = MemKeys(memory) \ MemKeys(put.mem)]
        /\ UNCHANGED <<now, pipe_rest>>

\* TranslationCache.get
Get(text, src, tgt) ==
    LET key == CacheKey(text, src, tgt)
        got == CacheGet(memory, db, key, now)
    IN  /\ memory' = got.mem
        /\ db' = got.db
        /\ recency' = IF got.hit THEN Touch(recency, key) ELSE recency
        /\ cret' = [NoCacheOp EXCEPT !.op = "get", !.key = key,
                        !.hit = got.hit, !.val = got.val,
                        !.count = Cardinality(db \ got.db),
                        !.evicted = MemKeys(memory) \ MemKeys(got.mem)]
        /\ UNCHANGED <<now, latest, pipe_rest>>

\* faulty cleanup: a row exactly one TTL old is deleted as well
cleanupInclusive(d, t) ==
    LET cutoff == t - DEFAULT_TTL
        gone   == {r \in d : r.ts <= cutoff}
    IN  [db |-> d \ gone, deleted |-> Cardinality(gone)]

\* TranslationCache.cleanup: the rows left and the number deleted
cleanup(d, t) ==
    LET cutoff == t - DEFAULT_TTL
        gone   == {r \in d : r.ts < cutoff}
    IN  [db |-> d \ gone, deleted |-> Cardinality(gone)]

Cleanup ==
    /\ db' = cleanup(db, now).db
    /\ cret' = [NoCacheOp EXCEPT !.op = "cleanup",
                    !.count = cleanup(db, now).deleted]
    /\ UNCHANGED <<memory, now, recency, latest, pipe_rest>>

\* close, then a new TranslationCache on the same file
Reopen ==
    /\ memory' = <<>>
    /\ cret' = [NoCacheOp EXCEPT !.op = "reopen"]
    /\ UNCHANGED <<db, now, recency, latest, pipe_rest>>

\* time.time() moves on by half a TTL
CacheTick ==
    /\ now + CacheTickLen <= MaxCacheTicks * CacheTickLen
    /\ now' = now + CacheTickLen
    /\ cret' = [NoCacheOp EXCEPT !.op = "tick"]
    /\ UNCHANGED <<memory, db, recency, latest, pipe_rest>>

-----------------------------------------------------------------------------
(* TranslatorService.translate, one action per attempt of its loop.        *)

MAX_RETRIES == 3
RETRY_DELAY == 1

\* the texts handed to translate, the target and source codes
TranslateTexts == {"", " ", "zerg", "hola __WCT0__"}

TranslateTargets == {"EN", "ru"}

TranslateSources == {"", "ES"}

\* faulty test of the text: only the empty string counts as empty
StripNothing(text) == text

\* str.strip() on these texts
Strip(text) == IF text = " " THEN "" ELSE text

\* _normalize_target_lang
normalize_target_lang(lang) ==
    CASE Upper(lang) = "EN" -> "EN-US"
      [] Upper(lang) = "PT" -> "PT-BR"
      [] OTHER -> Upper(lang)

\* no call of translate under way
IdleCall == [pc |-> "idle", text |-> "", target_lang |-> "",
             source_lang |-> "", effective_target |-> "", attempt |-> 0,
             calls |-> 0, sleeps |-> <<>>, last |-> "none", result |-> NoTr]

\* translate is called (lines 74-82)
Translate(text, tgt, src) ==
    /\ tcall.pc = "idle"
    /\ tcall' =
         IF Strip(text) = ""
         THEN [IdleCall EXCEPT !.pc = "done", !.text = text,
                               !.target_lang = tgt, !.source_lang = src,
                               !.result = Tr(text, src, TRUE, "")]
         ELSE [IdleCall EXCEPT !.pc = "attempt", !.text = text,
                               !.target_lang = tgt, !.source_lang = src,
                               !.effective_target =
                                   normalize_target_lang(tgt)]

\* faulty loop: the back-off sleep follows the last failed attempt as well
ClientCallSleepAlways(outcome, detected) ==
    /\ tcall.pc = "attempt"
    /\ tcall' =
         CASE outcome = "ok" ->
                [tcall EXCEPT !.pc = "done", !.calls = @ + 1, !.last = "ok",
                    !.result = Tr(MtText(tcall.text, tcall.target_lang),
                                  detected, TRUE, "")]
           [] outcome = "quota" ->
                [tcall EXCEPT !.pc = "done", !.calls = @ + 1,
                    !.last = "quota",
                    !.result = Tr(tcall.text, tcall.source_lang, FALSE,
                                  "quota_exceeded")]
           [] OTHER ->
                IF tcall.attempt < MAX_RETRIES - 1
                THEN [tcall EXCEPT !.calls = @ + 1, !.last = "error",
                         !.attempt = @ + 1,
                         !.sleeps = Append(@, RETRY_DELAY
                                                * (2 ^ tcall.attempt))]
                ELSE [tcall EXCEPT !.pc = "done", !.calls = @ + 1,
                         !.last = "error", !.attempt = @ + 1,
                         !.sleeps = Append(@, RETRY_DELAY
                                                * (2 ^ tcall.attempt)),
                         !.result = Tr(tcall.text, tcall.source_lang, FALSE,
                                       "max_retries_exceeded")]

\* faulty loop: QuotaExceeded is caught with the other DeepLExceptions
ClientCallQuotaRetried(outcome, detected) ==
    /\ tcall.pc = "attempt"
    /\ tcall' =
         CASE outcome = "ok" ->
                [tcall EXCEPT !.pc = "done", !.calls = @ + 1, !.last = "ok",
                    !.result = Tr(MtText(tcall.text, tcall.target_lang),
                                  detected, TRUE, "")]
           [] OTHER ->
                IF tcall.attempt < MAX_RETRIES - 1
                THEN [tcall EXCEPT !.calls = @ + 1, !.last = outcome,
                         !.attempt = @ + 1,
                         !.sleeps = Append(@, RETRY_DELAY
                                                * (2 ^ tcall.attempt))]
                ELSE [tcall EXCEPT !.pc = "done", !.calls = @ + 1,
                         !.last = outcome, !.attempt = @ + 1,
                         !.result = Tr(tcall.text, tcall.source_lang, FALSE,
                                       "max_retries_exceeded")]

\* one round of the loop (lines 84-113) and, past the last round, the
\* return at lines 115-119: the client answers, raises QuotaExceeded, or
\* raises another DeepLException; detected is the source the client reports
ClientCall(outcome, detected) ==
    /\ tcall.pc = "attempt"
    /\ tcall' =
         CASE outcome = "ok" ->
                [tcall EXCEPT !.pc = "done", !.calls = @ + 1, !.last = "ok",
                    !.result = Tr(MtText(tcall.text, tcall.target_lang),
                                  detected, TRUE, "")]
           [] outcome = "quota" ->
                [tcall EXCEPT !.pc = "done", !.calls = @ + 1,
                    !.last = "quota",
                    !.result = Tr(tcall.text, tcall.source_lang, FALSE,
                                  "quota_exceeded")]
           [] OTHER ->
                IF tcall.attempt < MAX_RETRIES - 1
                THEN [tcall EXCEPT !.calls = @ + 1, !.last = "error",
                         !.attempt = @ + 1,
                         !.sleeps = Append(@, RETRY_DELAY
                                                * (2 ^ tcall.attempt))]
                ELSE [tcall EXCEPT !.pc = "done", !.calls = @ + 1,
                         !.last = "error", !.attempt = @ + 1,
                         !.result = Tr(tcall.text, tcall.source_lang, FALSE,
                                       "max_retries_exceeded")]

\* the caller takes the result
TranslateReturn ==
    /\ tcall.pc = "done"
    /\ tcall' = IdleCall

-----------------------------------------------------------------------------
(* strip_for_translation and restore_tokens on a text given piece by       *)
(* piece: a word, a space, a raid marker, a hyperlinked object, the head   *)
(* of a URL (which is a URL together with the non-space pieces that follow *)
(* it), or a literal of the placeholder shape.                             *)

Word == "w"
Space == " "
Marker == "{skull}"
Link == "|cFFFF8800|Hitem:1|h[X]|h|r"
UrlHead == "www."
Literal == "__WCT0__"

\* the two ways a URL starts (https?://... or www....)
UrlHeads == {UrlHead, "https://"}

Pieces == {Word, Space, Marker, Link, UrlHead, Literal}

\* "focus {skull} on https://wowhead.com/npc/1"
TokenScenario ==
    <<"focus", Space, Marker, Space, "on", Space, "https://",
      "wowhead.com/npc/1">>

Texts == UNION {[1..n -> Pieces] : n \in 1..MaxTextLen}

\* f"__WCT{counter}__"
Placeholder(i) ==
    CASE i = 0 -> "__WCT0__"
      [] i = 1 -> "__WCT1__"
      [] i = 2 -> "__WCT2__"
      [] i = 3 -> "__WCT3__"
      [] i = 4 -> "__WCT4__"
      [] OTHER -> "__WCT5__"

\* re.sub(replace_token) for a pattern that matches the one piece tok:
\* acc holds the output so far, the counter and the replacements
RECURSIVE SubToken(_, _, _)
SubToken(items, tok, acc) ==
    IF items = <<>> THEN acc
    ELSE IF Head(items) = tok
    THEN SubToken(Tail(items), tok,
             [out  |-> Append(acc.out, Placeholder(acc.n)),
              n    |-> acc.n + 1,
              repl |-> Append(acc.repl, [ph |-> Placeholder(acc.n),
                                         orig |-> <<tok>>])])
    ELSE SubToken(Tail(items), tok,
             [acc EXCEPT !.out = Append(@, Head(items))])

\* the length of the run [^\s<>"]+ at the front of items
RECURSIVE RunLen(_)
RunLen(items) ==
    IF items = <<>> \/ Head(items) = Space THEN 0
    ELSE 1 + RunLen(Tail(items))

\* _RE_URL.sub(replace_token): a URL head and the run that follows it
RECURSIVE SubUrl(_, _)
SubUrl(items, acc) ==
    IF items = <<>> THEN acc
    ELSE IF Head(items) \in UrlHeads /\ RunLen(Tail(items)) >= 1
    THEN LET n == 1 + RunLen(Tail(items))
         IN  SubUrl(SubSeq(items, n + 1, Len(items)),
                 [out  |-> Append(acc.out, Placeholder(acc.n)),
                  n    |-> acc.n + 1,
                  repl |-> Append(acc.repl, [ph |-> Placeholder(acc.n),
                                             orig |-> SubSeq(items, 1, n)])])
    ELSE SubUrl(Tail(items), [acc EXCEPT !.out = Append(@, Head(items))])

\* strip_for_translation (lines 26-48): links, then URLs, then markers
StripForTranslation(items) ==
    LET a == SubToken(items, Link, [out |-> <<>>, n |-> 0, repl |-> <<>>])
        b == SubUrl(a.out, [a EXCEPT !.out = <<>>])
        c == SubToken(b.out, Marker, [b EXCEPT !.out = <<>>])
    IN  [masked |-> c.out, repl |-> c.repl]

\* str.replace(placeholder, original): every occurrence
RECURSIVE ReplaceAll(_, _, _)
ReplaceAll(items, ph, orig) ==
    IF items = <<>> THEN <<>>
    ELSE (IF Head(items) = ph THEN orig ELSE <<Head(items)>>)
             \o ReplaceAll(Tail(items), ph, orig)

\* restore_tokens (lines 51-56): the replacements in the order of the list
RECURSIVE RestoreTokens(_, _)
RestoreTokens(items, repl) ==
    IF repl = <<>> THEN items
    ELSE RestoreTokens(ReplaceAll(items, Head(repl).ph, Head(repl).orig),
                       Tail(repl))

NoShield == [pc |-> "idle", text |-> <<>>, masked |-> <<>>, repl |-> <<>>,
             restored |-> <<>>]

\* a text is masked
ShieldStrip(text) ==
    /\ shield.pc = "idle"
    /\ shield' = [NoShield EXCEPT !.pc = "masked", !.text = text,
                      !.masked = StripForTranslation(text).masked,
                      !.repl = StripForTranslation(text).repl]

\* the masked text, unchanged, is restored
ShieldRestore ==
    /\ shield.pc = "masked"
    /\ shield' = [shield EXCEPT !.pc = "restored",
                      !.restored = RestoreTokens(shield.masked, shield.repl)]

\* the next text
ShieldDone ==
    /\ shield.pc = "restored"
    /\ shield' = NoShield

-----------------------------------------------------------------------------
(* Part IV: ChatLogWatcher (app/watcher.py).  The file is a sequence of    *)
(* one-byte characters: a newline, a space, or a letter; every letter      *)
(* written is a new one, so that a line is told from every other line.     *)

NL == "\n"

Letter(i) ==
    CASE i = 1 -> "a" [] i = 2 -> "b" [] i = 3 -> "c" [] i = 4 -> "d"
      [] i = 5 -> "e" [] i = 6 -> "f" [] i = 7 -> "g" [] OTHER -> "h"

\* what a writer may append in one write: letters, spaces and newlines
ChunkShapes == UNION {[1..n -> {"letter", "space", "newline"}] :
                         n \in 1..MaxChunk}

\* the bytes of a write of that shape, the k-th byte written in all being
\* Letter(k) where it is a letter
Chunk(shape, base) ==
    [i \in 1..Len(shape) |->
        CASE shape[i] = "newline" -> NL
          [] shape[i] = "space" -> Space
          [] OTHER -> Letter(base + i)]

\* str.splitlines()
RECURSIVE SplitAcc(_, _, _)
SplitAcc(data, cur, acc) ==
    IF data = <<>> THEN (IF cur = <<>> THEN acc ELSE Append(acc, cur))
    ELSE IF Head(data) = NL
    THEN SplitAcc(Tail(data), <<>>, Append(acc, cur))
    ELSE SplitAcc(Tail(data), Append(cur, Head(data)), acc)

splitlines(data) == SplitAcc(data, <<>>, <<>>)

RECURSIVE LStrip(_)
LStrip(l) == IF l # <<>> /\ Head(l) = Space THEN LStrip(Tail(l)) ELSE l

RECURSIVE RStrip(_)
RStrip(l) ==
    IF l # <<>> /\ l[Len(l)] = Space THEN RStrip(SubSeq(l, 1, Len(l) - 1))
    ELSE l

\* str.strip()
StripLine(l) == RStrip(LStrip(l))

\* lines 102-105: the stripped, non-blank lines of the data read
NewLines(data) ==
    SelectSeq([i \in 1..Len(splitlines(data)) |->
                  StripLine(splitlines(data)[i])],
              LAMBDA l : l # <<>>)

\* start(): _seek_to_end (lines 65-70), then the polling thread
WatcherStart ==
    /\ ~wstarted
    /\ wstarted' = TRUE
    /\ wpos' = (IF wexists THEN Len(wfile) ELSE 0)
    /\ wstart' = wpos'
    /\ UNCHANGED <<wfile, wexists, wtrunc, wcount, wlines>>

\* _read_new_lines (lines 78-105); fail: open() raises OSError
WatcherPoll(fail) ==
    /\ wstarted
    /\ IF ~wexists
       THEN UNCHANGED <<wpos, wlines>>
       ELSE LET size == Len(wfile)
                pos  == IF size < wpos THEN 0 ELSE wpos
            IN  IF size = pos \/ fail
                THEN wpos' = pos /\ UNCHANGED wlines
                ELSE /\ wpos' = size
                     /\ wlines' = wlines \o NewLines(SubSeq(wfile, pos + 1,
                                                             size))
    /\ UNCHANGED <<wfile, wexists, wstarted, wstart, wtrunc, wcount>>

\* the game appends to the log
FileAppend(shape) ==
    /\ wexists
    /\ wcount + Len(shape) <= MaxChars
    /\ wfile' = wfile \o Chunk(shape, wcount)
    /\ wcount' = wcount + Len(shape)
    /\ UNCHANGED <<wexists, wpos, wstarted, wstart, wtrunc, wlines>>

\* the file is cut down to its first n bytes
FileTruncate(n) ==
    /\ wexists
    /\ n < Len(wfile)
    /\ wstarted => wtrunc < MaxTrunc
    /\ wfile' = SubSeq(wfile, 1, n)
    /\ wtrunc' = (IF wstarted THEN wtrunc + 1 ELSE wtrunc)
    /\ UNCHANGED <<wexists, wpos, wstarted, wstart, wcount, wlines>>

\* the file is deleted
FileRemove ==
    /\ wexists
    /\ wstarted => wtrunc < MaxTrunc
    /\ wexists' = FALSE
    /\ wfile' = <<>>
    /\ wtrunc' = (IF wstarted THEN wtrunc + 1 ELSE wtrunc)
    /\ UNCHANGED <<wpos, wstarted, wstart, wcount, wlines>>

\* the game creates the file
FileCreate ==
    /\ ~wexists
    /\ wexists' = TRUE
    /\ wfile' = <<>>
    /\ UNCHANGED <<wpos, wstarted, wstart, wtrunc, wcount, wlines>>

InitWatch ==
    /\ wfile = <<>>
    /\ wexists = TRUE
    /\ wpos = 0
    /\ wstarted = FALSE
    /\ wstart = 0
    /\ wtrunc = 0
    /\ wcount = 0
    /\ wlines = <<>>

-----------------------------------------------------------------------------
(* Part V: phrasebook.lookup (app/phrasebook.py) on a text given piece by  *)
(* piece: a word in one letter case, a whitespace character, or a          *)
(* punctuation character.                                                  *)

Tab == "\t"

\* the letter U+00DF, which has no upper-case form of its own
Eszett == "<sz>"

Whitespace == {Space, Tab}

\* characters of _RE_TRAILING_PUNCT
Punctuation == {"!", "?", ")"}

\* str.lower() on a piece
LowerPiece(x) ==
    CASE x \in {"HELLO", "Hello"} -> "hello"
      [] x \in {"GG", "Gg"} -> "gg"
      [] x \in {"VIEL", "Viel"} -> "viel"
      [] x \in {"SPA", "Spa"} -> "spa"
      [] x = "SS" -> "ss"
      [] OTHER -> x

\* str.upper() on a piece
UpperPiece(x) ==
    CASE x = "hello" -> "HELLO"
      [] x = "gg" -> "GG"
      [] x = "viel" -> "VIEL"
      [] x = "spa" -> "SPA"
      [] x = Eszett -> "SS"
      [] OTHER -> x

LowerText(items) == [i \in 1..Len(items) |-> LowerPiece(items[i])]

UpperText(items) == [i \in 1..Len(items) |-> UpperPiece(items[i])]

RECURSIVE LStripWs(_)
LStripWs(l) ==
    IF l # <<>> /\ Head(l) \in Whitespace THEN LStripWs(Tail(l)) ELSE l

RECURSIVE RStripWs(_)
RStripWs(l) ==
    IF l # <<>> /\ l[Len(l)] \in Whitespace
    THEN RStripWs(SubSeq(l, 1, Len(l) - 1)) ELSE l

\* _RE_TRAILING_PUNCT.sub("", ...)
RECURSIVE StripTrailingPunct(_)
StripTrailingPunct(l) ==
    IF l # <<>> /\ l[Len(l)] \in Punctuation
    THEN StripTrailingPunct(SubSeq(l, 1, Len(l) - 1)) ELSE l

\* _normalize: strip, lower, then drop the trailing punctuation
Normalize(text) == StripTrailingPunct(LowerText(RStripWs(LStripWs(text))))

\* keys of _ENTRIES and _ABBREVIATIONS
KeyHello == <<"hello">>
KeyViel == <<"viel", Space, "spa", Eszett>>
KeyGg == <<"gg">>

PbKeys == {KeyHello, KeyViel, KeyGg}

\* _ENTRIES.get((norm, src, tgt)); "" stands for None
Entries(norm, src, tgt) ==
    CASE norm = KeyHello /\ src = "EN" /\ tgt = "DE" -> "hallo"
      [] norm = KeyViel /\ src = "DE" /\ tgt = "EN" -> "have fun"
      [] OTHER -> ""

\* _ABBREVIATIONS.get((norm, tgt)); "" stands for None
Abbreviations(norm, tgt) ==
    CASE norm = KeyGg /\ tgt = "DE" -> "gutes Spiel"
      [] OTHER -> ""

\* str.upper() on a language code
UpperCode(code) ==
    CASE code = "en" -> "EN" [] code = "de" -> "DE" [] OTHER -> code

\* phrasebook.lookup (lines 425-452)
lookup(text, source_lang, target_lang) ==
    LET norm == Normalize(text)
        tgt  == UpperCode(target_lang)
        hit  == Entries(norm, UpperCode(source_lang), tgt)
    IN  IF hit # "" THEN hit ELSE Abbreviations(norm, tgt)

PbCodes == {"EN", "DE", "en", "de"}

PunctRuns == UNION {[1..n -> Punctuation] : n \in 0..MaxPunct}

WsRuns == {<<>>, <<Space>>, <<Tab, Space>>}

NoLookup == [pc |-> "idle", key |-> <<>>, text |-> <<>>, src |-> "",
             tgt |-> "", upper |-> FALSE, result |-> "", base |-> ""]

\* lookup is called with a key in lower or upper case, followed by
\* punctuation and wrapped in whitespace, and, for comparison, with the key
PbLookup(k, p, w1, w2, up, src, tgt) ==
    /\ pbk.pc = "idle"
    /\ LET text == w1 \o (IF up THEN UpperText(k) ELSE k) \o p \o w2
       IN  pbk' = [pc |-> "done", key |-> k, text |-> text, src |-> src,
                   tgt |-> tgt, upper |-> up,
                   result |-> lookup(text, src, tgt),
                   base |-> lookup(k, src, tgt)]

PbDone ==
    /\ pbk.pc = "done"
    /\ pbk' = NoLookup

-----------------------------------------------------------------------------
(* Part VI: the line parser (parser.py) and the lines the scanner makes    *)
(* of legacy buffer entries (memory_reader.py).  A line is a sequence of   *)
(* pieces: the timestamp, a run of whitespace, a bracket, colon, dash or   *)
(* bar, a word or name, or one unit of client markup.  The localized       *)
(* words of the second client are written in Latin letters.                *)

Ts == "2/15 21:30:45.123"
Sep == "  "
LBr == "["
RBr == "]"
Colon == ":"
Dash == "-"
Bar == "|"
Color == "|cFFFF8800"
Reset == "|r"
HItem == "|Hitem:12345|h"
HEnd == "|h"
HPlayer == "|Hplayer:Thrall-Sargeras:1|h"
Display == "[Sword of Truth]"

\* |Hchannel:TYPE|h
HChannel(type) ==
    CASE type = "PARTY" -> "|Hchannel:PARTY|h"
      [] type = "RAID_WARNING" -> "|Hchannel:RAID_WARNING|h"
      [] OTHER -> "|Hchannel:TRADE|h"

HChannels == {HChannel("PARTY"), HChannel("RAID_WARNING"), HChannel("TRADE")}

\* group 2 of _RE_HCHANNEL_MSG: the TYPE of |Hchannel:TYPE|h
HChannelType(piece) ==
    CASE piece = "|Hchannel:PARTY|h" -> "PARTY"
      [] piece = "|Hchannel:RAID_WARNING|h" -> "RAID_WARNING"
      [] OTHER -> "TRADE"

WsPieces == {Space, Tab, Sep}

\* |H...|h
HOpen == {HItem, HPlayer} \cup HChannels

\* the characters of a piece that the character classes of the patterns
\* name; a word or a name has none of them
Chars(x) ==
    CASE x \in WsPieces -> {"ws"}
      [] x = Dash -> {"-"}
      [] x = Colon -> {":"}
      [] x = RBr -> {"]"}
      [] x \in {Color, Reset, HEnd, Bar} -> {"|"}
      [] x = HItem -> {"|", ":"}
      [] x = HPlayer -> {"|", ":", "-"}
      [] x \in HChannels -> {"|", ":"}
      [] x = Display -> {"]", "ws"}
      [] x = Ts -> {"ws", ":"}
      [] x \in {"Party Leader", "Raid Leader", "Raid Warning",
                "Instance Leader", "You whisper", "Vy shepchete",
                "has left", "Npc Name"} -> {"ws"}
      [] x = "LOOT:" -> {":"}
      [] OTHER -> {}

\* items of a pattern
Lit(S) == [k |-> "lit", s |-> S]
Cap(S) == [k |-> "cap", s |-> S]
Opt(S) == [k |-> "opt", s |-> S]
Ws == [k |-> "ws", s |-> {}]
Skip(stops) == [k |-> "skip", s |-> stops]
Run(stops) == [k |-> "run", s |-> stops]
Server(stops) == [k |-> "server", s |-> stops]
Rest == [k |-> "rest", s |-> {}]
Lazy(S) == [k |-> "lazy", s |-> S]

NoMatch == [ok |-> FALSE, caps |-> <<>>]

\* the end of the longest run of whitespace from position i
WsEnd(line, i) ==
    CHOOSE j \in i..(Len(line) + 1) :
        /\ \A k \in i..(j - 1) : line[k] \in WsPieces
        /\ j <= Len(line) => line[j] \notin WsPieces

\* the end of the longest run from position i of pieces that hold none of
\* the characters stops: [^...]
RunEnd(line, i, stops) ==
    CHOOSE j \in i..(Len(line) + 1) :
        /\ \A k \in i..(j - 1) : Chars(line[k]) \cap stops = {}
        /\ j <= Len(line) => Chars(line[j]) \cap stops # {}

\* \s+(.+)$ : the whitespace takes all it can and leaves one character
RestMatch(line, i, caps) ==
    LET n == Len(line)
        j == WsEnd(line, i)
    IN  IF i > n \/ j = i THEN NoMatch
        ELSE IF j <= n
             THEN [ok |-> TRUE, caps |-> Append(caps, SubSeq(line, j, n))]
             ELSE IF j - i >= 2
                  THEN [ok |-> TRUE, caps |-> Append(caps, <<line[n]>>)]
                  ELSE NoMatch

\* (.+?)\s+(verb):\s+(.+)$ : the name ends at the first whitespace that the
\* verb, the colon and the text follow
LazyMatch(line, i, verbs, caps) ==
    LET n == Len(line)
        Ends == {j \in (i + 1)..n :
                   /\ line[j] \in WsPieces
                   /\ LET k == WsEnd(line, j)
                      IN  /\ k + 1 <= n
                          /\ line[k] \in verbs
                          /\ line[k + 1] = Colon
                          /\ RestMatch(line, k + 2, <<>>).ok}
    IN  IF Ends = {} THEN NoMatch
        ELSE LET j == CHOOSE e \in Ends : \A f \in Ends : e <= f
                 k == WsEnd(line, j)
             IN  RestMatch(line, k + 2,
                           caps \o <<SubSeq(line, i, j - 1), <<line[k]>>>>)

\* regex.match(line): the pattern from position i on, to the end of the line
RECURSIVE Match(_, _, _, _)
Match(pat, line, i, caps) ==
    IF pat = <<>> THEN [ok |-> i = Len(line) + 1, caps |-> caps]
    ELSE
      LET p == Head(pat)
          rest == Tail(pat)
          here == i <= Len(line)
      IN  CASE p.k = "lit" ->
                 IF here /\ line[i] \in p.s
                 THEN Match(rest, line, i + 1, caps) ELSE NoMatch
            [] p.k = "cap" ->
                 IF here /\ line[i] \in p.s
                 THEN Match(rest, line, i + 1, Append(caps, <<line[i]>>))
                 ELSE NoMatch
            [] p.k = "opt" ->
                 IF here /\ line[i] \in p.s
                 THEN Match(rest, line, i + 1, caps)
                 ELSE Match(rest, line, i, caps)
            [] p.k = "ws" ->
                 IF here /\ line[i] \in WsPieces
                 THEN Match(rest, line, WsEnd(line, i), caps) ELSE NoMatch
            [] p.k = "skip" ->
                 Match(rest, line, RunEnd(line, i, p.s), caps)
            [] p.k = "run" ->
                 LET j == RunEnd(line, i, p.s)
                 IN  IF j > i
                     THEN Match(rest, line, j,
                                Append(caps, SubSeq(line, i, j - 1)))
                     ELSE NoMatch
            [] p.k = "server" ->
                 LET j == IF here /\ line[i] = Dash
                          THEN RunEnd(line, i + 1, p.s) ELSE i
                 IN  IF j > i + 1
                     THEN Match(rest, line, j,
                                Append(caps, SubSeq(line, i + 1, j - 1)))
                     ELSE Match(rest, line, i, Append(caps, <<>>))
            [] p.k = "rest" -> RestMatch(line, i, caps)
            [] OTHER -> LazyMatch(line, i, p.s, caps)

\* ^(\d+/\d+\s+\d+:\d+:\d+\.\d+)\s+
TsHead == <<Cap({Ts}), Ws>>

Verbs == {"says", "yells", "govorit", "krichit"}

RE_WHISPER_TO ==
    TsHead \o <<Lit({"To"}), Ws, Lit({LBr}), Run({"-", "]"}), Server({"]"}),
                Lit({RBr}), Lit({Colon}), Rest>>

RE_WHISPER_TO_RU ==
    TsHead \o <<Lit({"Komu"}), Ws, Lit({LBr}), Run({"-", "]"}),
                Server({"]"}), Lit({RBr}), Lit({Colon}), Rest>>

RE_WHISPER_FROM ==
    TsHead \o <<Opt({HPlayer}), Lit({LBr}), Run({"-", "]", "|"}),
                Server({"]", "|"}), Lit({RBr}), Opt({HEnd}), Ws,
                Lit({"whispers", "shepchet"}), Lit({Colon}), Rest>>

RE_HCHANNEL_MSG ==
    TsHead \o <<Cap(HChannels), Lit({LBr}), Skip({"]"}), Lit({RBr}),
                Lit({HEnd}), Ws, Opt({HPlayer}), Opt({LBr}),
                Run({"-", "ws", ":", "]", "|"}),
                Server({"ws", ":", "]", "|"}), Opt({RBr}), Opt({HEnd}),
                Lit({Colon}), Rest>>

RE_BRACKET_HPLAYER_MSG ==
    TsHead \o <<Lit({LBr}), Run({"]"}), Lit({RBr}), Ws, Lit({HPlayer}),
                Lit({LBr}), Run({"-", "]", "|"}), Server({"]", "|"}),
                Lit({RBr}), Lit({HEnd}), Lit({Colon}), Rest>>

RE_CHANNEL_MSG ==
    TsHead \o <<Lit({LBr}), Run({"]"}), Lit({RBr}), Ws, Opt({LBr}),
                Run({"-", "ws", ":", "]"}), Server({"ws", ":", "]"}),
                Opt({RBr}), Lit({Colon}), Rest>>

RE_WHISPER_TO_ADDMSG ==
    TsHead \o <<Lit({"You whisper", "Vy shepchete"}), Ws, Opt({HPlayer}),
                Opt({LBr}), Run({"-", "]", "|", ":"}),
                Server({"]", "|", ":"}), Opt({RBr}), Opt({HEnd}),
                Lit({Colon}), Rest>>

RE_WHISPER_FROM_ADDMSG ==
    TsHead \o <<Opt({HPlayer}), Lit({LBr}), Run({"-", "]", "|"}),
                Server({"]", "|"}), Lit({RBr}), Opt({HEnd}), Ws,
                Lit({"whispers", "shepchet"}), Lit({Colon}), Rest>>

RE_SAY_YELL_PLAYER ==
    TsHead \o <<Lit({HPlayer}), Lit({LBr}), Run({"-", "]", "|"}),
                Server({"]", "|"}), Lit({RBr}), Lit({HEnd}), Ws, Cap(Verbs),
                Lit({Colon}), Rest>>

RE_SAY_YELL_PLAIN == TsHead \o <<Lazy(Verbs)>>

\* _CHANNEL_MAP.get(name); "" stands for None
CHANNEL_MAP(name) ==
    CASE name = <<"Say">> -> "SAY"
      [] name = <<"Yell">> -> "YELL"
      [] name = <<"Party">> -> "PARTY"
      [] name = <<"Party Leader">> -> "PARTY_LEADER"
      [] name = <<"Raid">> -> "RAID"
      [] name = <<"Raid Leader">> -> "RAID_LEADER"
      [] name = <<"Raid Warning">> -> "RAID_WARNING"
      [] name = <<"Guild">> -> "GUILD"
      [] name = <<"Officer">> -> "OFFICER"
      [] name = <<"Instance">> -> "INSTANCE"
      [] name = <<"Instance Leader">> -> "INSTANCE_LEADER"
      [] name = <<"Gruppa">> -> "PARTY"
      [] OTHER -> ""

\* _HCHANNEL_MAP.get(channel_id); "" stands for None
HCHANNEL_MAP(channel_id) ==
    CASE channel_id = "PARTY" -> "PARTY"
      [] channel_id = "RAID_WARNING" -> "RAID_WARNING"
      [] OTHER -> ""

\* _SAY_YELL_VERB_MAP.get(verb)
SAY_YELL_VERB_MAP(verb) ==
    IF verb \in {"says", "govorit"} THEN "SAY" ELSE "YELL"

\* one full link: |cXXXXXXXX|Htype:data|h[Display Name]|h|r
WowLink == <<Color, HItem, Display, HEnd, Reset>>

\* _RE_WOW_LINK matches at position i
LinkAt(l, i) ==
    /\ i + 4 <= Len(l)
    /\ l[i] = Color
    /\ l[i + 1] \in HOpen
    /\ l[i + 2] = Display
    /\ l[i + 3] = HEnd
    /\ l[i + 4] = Reset

\* _RE_WOW_LINK.sub("", ...)
RECURSIVE RemoveLinks(_)
RemoveLinks(l) ==
    IF l = <<>> THEN <<>>
    ELSE IF LinkAt(l, 1) THEN RemoveLinks(SubSeq(l, 6, Len(l)))
         ELSE <<Head(l)>> \o RemoveLinks(Tail(l))

\* _is_item_link_only
is_item_link_only(raw_text) ==
    /\ RStripWs(LStripWs(RemoveLinks(raw_text))) = <<>>
    /\ \E i \in 1..Len(raw_text) : LinkAt(raw_text, i)

\* _strip_wow_markup
strip_wow_markup(text) ==
    SelectSeq(text, LAMBDA x : x \notin ({Color, Reset, HEnd} \cup HOpen))

\* _is_system_message
is_system_message(text) ==
    \/ \E i \in 1..Len(text) : text[i] = "has left"
    \/ /\ Len(text) >= 2
       /\ text[1] = Color
       /\ text[2] \in HOpen
    \/ /\ text # <<>>
       /\ text[1] = "LOOT:"

NoText == [ok |-> FALSE, text |-> <<>>]

\* _clean_text; ok = FALSE stands for None
clean_text(raw_text) ==
    LET raw == RStripWs(LStripWs(raw_text))
        text == strip_wow_markup(raw)
    IN  IF is_item_link_only(raw) THEN NoText
        ELSE IF is_system_message(text) THEN NoText
             ELSE [ok |-> TRUE, text |-> text]

NoChat == [ok |-> FALSE, channel |-> "", author |-> <<>>, server |-> <<>>,
           text |-> <<>>]

ChatMessage(channel, author, server, text) ==
    [ok |-> TRUE, channel |-> channel, author |-> author, server |-> server,
     text |-> text]

\* _RE_COLOR_CODES.sub("", line)
StripColorCodes(line) == SelectSeq(line, LAMBDA x : x \notin {Color, Reset})

\* parse_line, from the say/yell forms back to the whisper forms
ParseSayYellPlain(line) ==
    LET m == Match(RE_SAY_YELL_PLAIN, line, 1, <<>>)
        text == clean_text(m.caps[4])
    IN  IF m.ok /\ text.ok
        THEN ChatMessage(SAY_YELL_VERB_MAP(m.caps[3][1]),
                         RStripWs(LStripWs(m.caps[2])), <<>>, text.text)
        ELSE NoChat

ParseSayYellPlayer(line) ==
    LET m == Match(RE_SAY_YELL_PLAYER, line, 1, <<>>)
        text == clean_text(m.caps[5])
    IN  IF m.ok /\ text.ok
        THEN ChatMessage(SAY_YELL_VERB_MAP(m.caps[4][1]), m.caps[2],
                         m.caps[3], text.text)
        ELSE ParseSayYellPlain(line)

ParseWhisperFromAddmsg(line) ==
    LET m == Match(RE_WHISPER_FROM_ADDMSG, line, 1, <<>>)
        text == clean_text(m.caps[4])
    IN  IF m.ok
        THEN IF text.ok
             THEN ChatMessage("WHISPER_FROM", m.caps[2], m.caps[3], text.text)
             ELSE NoChat
        ELSE ParseSayYellPlayer(line)

ParseWhisperToAddmsg(line) ==
    LET m == Match(RE_WHISPER_TO_ADDMSG, line, 1, <<>>)
        text == clean_text(m.caps[4])
    IN  IF m.ok
        THEN IF text.ok
             THEN ChatMessage("WHISPER_TO", m.caps[2], m.caps[3], text.text)
             ELSE NoChat
        ELSE ParseWhisperFromAddmsg(line)

ParseChannel(line) ==
    LET m == Match(RE_CHANNEL_MSG, line, 1, <<>>)
        channel == CHANNEL_MAP(m.caps[2])
        text == clean_text(m.caps[5])
    IN  IF m.ok
        THEN IF channel # "" /\ text.ok
             THEN ChatMessage(channel, m.caps[3], m.caps[4], text.text)
             ELSE NoChat
        ELSE ParseWhisperToAddmsg(line)

ParseBracketHplayer(line) ==
    LET m == Match(RE_BRACKET_HPLAYER_MSG, line, 1, <<>>)
        channel == CHANNEL_MAP(m.caps[2])
        text == clean_text(m.caps[5])
    IN  IF m.ok /\ channel # "" /\ text.ok
        THEN ChatMessage(channel, m.caps[3], m.caps[4], text.text)
        ELSE ParseChannel(line)

ParseHchannel(line) ==
    LET m == Match(RE_HCHANNEL_MSG, line, 1, <<>>)
        channel == HCHANNEL_MAP(HChannelType(m.caps[2][1]))
        text == clean_text(m.caps[5])
    IN  IF m.ok
        THEN IF channel # "" /\ text.ok
             THEN ChatMessage(channel, m.caps[3], m.caps[4], text.text)
             ELSE NoChat
        ELSE ParseBracketHplayer(line)

ParseWhisperFrom(line) ==
    LET m == Match(RE_WHISPER_FROM, line, 1, <<>>)
        text == clean_text(m.caps[4])
    IN  IF m.ok
        THEN IF text.ok
             THEN ChatMessage("WHISPER_FROM", m.caps[2], m.caps[3], text.text)
             ELSE NoChat
        ELSE ParseHchannel(line)

ParseWhisperTo(line) ==
    LET en == Match(RE_WHISPER_TO, line, 1, <<>>)
        m == IF en.ok THEN en ELSE Match(RE_WHISPER_TO_RU, line, 1, <<>>)
        text == clean_text(m.caps[4])
    IN  IF m.ok
        THEN IF text.ok
             THEN ChatMessage("WHISPER_TO", m.caps[2], m.caps[3], text.text)
             ELSE NoChat
        ELSE ParseWhisperFrom(line)

\* parse_line (parser.py 254-408)
ParseLine(line) == ParseWhisperTo(StripColorCodes(line))

\* _ADDON_CHANNEL_MAP.get(channel); "" stands for None
ADDON_CHANNEL_MAP(channel) ==
    CASE channel = "SAY" -> "SAY"
      [] channel = "YELL" -> "YELL"
      [] channel = "PARTY" -> "PARTY"
      [] channel = "PARTY_LEADER" -> "PARTY_LEADER"
      [] channel = "RAID" -> "RAID"
      [] channel = "RAID_LEADER" -> "RAID_LEADER"
      [] channel = "RAID_WARNING" -> "RAID_WARNING"
      [] channel = "GUILD" -> "GUILD"
      [] channel = "OFFICER" -> "OFFICER"
      [] channel = "WHISPER" -> "WHISPER_FROM"
      [] channel = "WHISPER_INFORM" -> "WHISPER_TO"
      [] channel = "INSTANCE_CHAT" -> "INSTANCE"
      [] channel = "INSTANCE_CHAT_LEADER" -> "INSTANCE_LEADER"
      [] OTHER -> ""

\* _ADDON_CHANNEL_TO_LOG.get(channel); "" stands for None
ADDON_CHANNEL_TO_LOG(channel) ==
    CASE channel = "SAY" -> "Say"
      [] channel = "YELL" -> "Yell"
      [] channel = "PARTY" -> "Party"
      [] channel = "PARTY_LEADER" -> "Party Leader"
      [] channel = "RAID" -> "Raid"
      [] channel = "RAID_LEADER" -> "Raid Leader"
      [] channel = "RAID_WARNING" -> "Raid Warning"
      [] channel = "GUILD" -> "Guild"
      [] channel = "OFFICER" -> "Officer"
      [] channel = "INSTANCE_CHAT" -> "Instance"
      [] channel = "INSTANCE_CHAT_LEADER" -> "Instance Leader"
      [] OTHER -> ""

\* faulty _make_synthetic_log_line: a whisper that was sent is written as a
\* whisper that was received
make_synthetic_log_line_received(channel, author, text) ==
    CASE channel \in {"WHISPER", "WHISPER_INFORM"} ->
           <<Ts, Sep, LBr>> \o author
               \o <<RBr, Space, "whispers", Colon, Space>> \o text
      [] OTHER ->
           IF ADDON_CHANNEL_TO_LOG(channel) = "" THEN <<>>
           ELSE <<Ts, Sep, LBr, ADDON_CHANNEL_TO_LOG(channel), RBr, Space>>
                    \o author \o <<Colon, Space>> \o text

\* _make_synthetic_log_line; <<>> stands for None
make_synthetic_log_line(channel, author, text) ==
    CASE channel = "WHISPER" ->
           <<Ts, Sep, LBr>> \o author
               \o <<RBr, Space, "whispers", Colon, Space>> \o text
      [] channel = "WHISPER_INFORM" ->
           <<Ts, Sep, "To", Space, LBr>> \o author
               \o <<RBr, Colon, Space>> \o text
      [] OTHER ->
           IF ADDON_CHANNEL_TO_LOG(channel) = "" THEN <<>>
           ELSE <<Ts, Sep, LBr, ADDON_CHANNEL_TO_LOG(channel), RBr, Space>>
                    \o author \o <<Colon, Space>> \o text

\* line.split("|", maxsplit)
RECURSIVE SplitBar(_, _)
SplitBar(l, maxsplit) ==
    IF maxsplit = 0 \/ \A i \in 1..Len(l) : l[i] # Bar THEN <<l>>
    ELSE LET i == CHOOSE k \in 1..Len(l) :
                      l[k] = Bar /\ \A h \in 1..(k - 1) : l[h] # Bar
         IN  <<SubSeq(l, 1, i - 1)>>
                 \o SplitBar(SubSeq(l, i + 1, Len(l)), maxsplit - 1)

AddonChannels ==
    {"SAY", "YELL", "PARTY", "PARTY_LEADER", "RAID", "RAID_LEADER",
     "RAID_WARNING", "GUILD", "OFFICER", "WHISPER", "WHISPER_INFORM",
     "INSTANCE_CHAT", "INSTANCE_CHAT_LEADER", "CHANNEL"}

Authors == {<<"Thrall">>}

Realms == {<<"Sargeras">>, <<"Area", Dash, "52">>}

\* what a message text is made of
TextParts ==
    {<<"hello">>, <<Space>>, <<Colon>>, <<"has left">>, <<"LOOT:">>,
     <<Reset>>, WowLink}

RECURSIVE TextsOf(_)
TextsOf(n) ==
    IF n = 0 THEN {<<>>}
    ELSE LET shorter == TextsOf(n - 1)
         IN  shorter \cup {t \o p : t \in shorter, p \in TextParts}

ChatTexts == TextsOf(MaxParts)

\* a line of each form that parse_line accepts, up to the text
LineHeads ==
    [whisper_to |-> <<Ts, Sep, "To", Space, LBr, "Thrall", Dash, "Sargeras",
                      RBr, Colon, Space>>,
     whisper_to_ru |-> <<Ts, Sep, "Komu", Space, LBr, "Thrall", Dash,
                         "Sargeras", RBr, Colon, Space>>,
     whisper_from |-> <<Ts, Sep, LBr, "Thrall", Dash, "Sargeras", RBr, Space,
                        "whispers", Colon, Space>>,
     whisper_from_link |-> <<Ts, Sep, HPlayer, LBr, "Thrall", Dash,
                             "Sargeras", RBr, HEnd, Space, "shepchet", Colon,
                             Space>>,
     hchannel |-> <<Ts, Sep, HChannel("PARTY"), LBr, "Gruppa", RBr, HEnd,
                    Space, "Thrall", Dash, "Sargeras", Colon, Space>>,
     hchannel_unknown |-> <<Ts, Sep, HChannel("TRADE"), LBr, "Trade", RBr,
                            HEnd, Space, "Thrall", Dash, "Sargeras", Colon,
                            Space>>,
     bracket_hplayer |-> <<Ts, Sep, LBr, "Raid Warning", RBr, Space, HPlayer,
                           LBr, "Thrall", Dash, "Sargeras", RBr, HEnd, Colon,
                           Space>>,
     channel |-> <<Ts, Sep, LBr, "Party", RBr, Space, "Thrall", Dash,
                   "Sargeras", Colon, Space>>,
     channel_bracket |-> <<Ts, Sep, LBr, "Gruppa", RBr, Space, LBr, "Thrall",
                           Dash, "Sargeras", RBr, Colon, Space>>,
     channel_unknown |-> <<Ts, Sep, LBr, "Trade", RBr, Space, "Thrall", Dash,
                           "Sargeras", Colon, Space>>,
     whisper_to_addmsg |-> <<Ts, Sep, "You whisper", Space, LBr, "Thrall",
                             RBr, Colon, Space>>,
     say_player |-> <<Ts, Sep, HPlayer, LBr, "Thrall", Dash, "Sargeras", RBr,
                      HEnd, Space, "says", Colon, Space>>,
     say_plain |-> <<Ts, Sep, "Npc Name", Space, "yells", Colon, Space>>]

LineForms == DOMAIN LineHeads

\* the forms whose channel the parser knows
SupportedForms == LineForms \ {"hchannel_unknown", "channel_unknown"}

NoParse == [pc |-> "idle", form |-> "", channel |-> "", author |-> <<>>,
            server |-> <<>>, text |-> <<>>, line |-> <<>>, msg |-> NoChat]

\* _deliver_new_messages, legacy branch (lines 781-791): the buffer line
\* SEQ|CHANNEL|AUTHOR-SERVER|TEXT is split, made into a log line, and the
\* log line is handed to the callback, which parses it
DeliverLegacy(channel, author, server, text) ==
    /\ prs.pc = "idle"
    /\ LET line == <<"7", Bar, channel, Bar>> \o author \o <<Dash>>
                       \o server \o <<Bar>> \o text
           legacy_parts == SplitBar(line, 3)
           log_line == make_synthetic_log_line(legacy_parts[2][1],
                                               legacy_parts[3],
                                               legacy_parts[4])
       IN  /\ Len(legacy_parts) >= 4
           /\ prs' = [pc |-> "legacy", form |-> "", channel |-> channel,
                      author |-> author, server |-> server, text |-> text,
                      line |-> log_line,
                      msg |-> IF log_line # <<>> THEN ParseLine(log_line)
                              ELSE NoChat]

\* parse_line is called with a line of one of its forms
ParseForm(form, text) ==
    /\ prs.pc = "idle"
    /\ LET line == LineHeads[form] \o text
       IN  prs' = [pc |-> "parsed", form |-> form, channel |-> "",
                   author |-> <<>>, server |-> <<>>, text |-> text,
                   line |-> line, msg |-> ParseLine(line)]

ParserDone ==
    /\ prs.pc # "idle"
    /\ prs' = NoParse

-----------------------------------------------------------------------------
(* Part VII: the config file (config.py).  The record is modelled by three *)
(* of its text fields; the file is absent, is no JSON, is JSON that is no  *)
(* object, or is an object that gives values to some keys.                 *)

\* asdict(cls()): the defaults of the fields
ConfigDefaults ==
    [deepl_api_key |-> "", own_language |-> "RU", target_language |-> "EN"]

ConfigFields == DOMAIN ConfigDefaults

\* keys a file may hold that the record does not define
UnknownKeys == {"theme"}

FileValues == {"DE", "EN"}

\* the objects a file may hold
FileObjects ==
    UNION {[keys -> FileValues] : keys \in SUBSET (ConfigFields \cup UnknownKeys)}

NoObject == [k \in {} |-> ""]

\* what the file may be
ConfigFiles ==
    {[kind |-> "missing", data |-> NoObject],
     [kind |-> "invalid", data |-> NoObject],
     [kind |-> "nonobject", data |-> NoObject]}
        \cup {[kind |-> "object", data |-> d] : d \in FileObjects}

\* defaults.update(data)
Update(defaults, data) ==
    [k \in DOMAIN defaults \cup DOMAIN data |->
        IF k \in DOMAIN data THEN data[k] ELSE defaults[k]]

\* AppConfig.load (lines 78-87): raised = "" when a config is returned
load(file) ==
    CASE file.kind \in {"missing", "invalid"} ->
           [raised |-> "", config |-> ConfigDefaults]
      [] file.kind = "nonobject" ->
           [raised |-> "TypeError", config |-> ConfigDefaults]
      [] OTHER ->
           LET defaults == Update(ConfigDefaults, file.data)
           IN  IF DOMAIN defaults \subseteq ConfigFields
               THEN [raised |-> "", config |-> defaults]
               ELSE [raised |-> "TypeError", config |-> ConfigDefaults]

NoConfigLoad == [pc |-> "idle",
                 file |-> [kind |-> "missing", data |-> NoObject],
                 raised |-> "", config |-> ConfigDefaults]

\* the file is written, by save or by hand, or removed
ConfigWrite(file) ==
    /\ cfl.pc = "idle"
    /\ cfl' = [cfl EXCEPT !.pc = "written", !.file = file]

\* AppConfig.load
ConfigLoad ==
    /\ cfl.pc = "written"
    /\ cfl' = [cfl EXCEPT !.pc = "loaded", !.raised = load(cfl.file).raised,
                          !.config = load(cfl.file).config]

ConfigDone ==
    /\ cfl.pc = "loaded"
    /\ cfl' = NoConfigLoad

-----------------------------------------------------------------------------
(* Part VIII: two threads in TranslationCache._memory_put, one action per  *)
(* statement, and TranslationPipeline.stop.                                *)

LruKeys ==
    { CacheKey("zerg", "ES", "RU"),
      CacheKey("hola {skull}", "ES", "RU"),
      CacheKey("pull in 5", "EN", "RU") }

NoMemoryPut == [pc |-> "idle", key |-> <<"", "", "">>, raised |-> FALSE]

\* what _memory_put leaves alone
MemoryPutFrame ==
    UNCHANGED <<config, det_own, recent_messages, db, now, th, emitted,
                returned, nlines, history, svars, cachevars, tcall, shield,
                wvars, fvars, stp>>

\* cache.py line 114: if key in self._memory
MemoryPutEnter(t, key) ==
    /\ lru[t].pc = "idle"
    /\ lru' = [lru EXCEPT ![t] =
                  [pc |-> IF MemHas(memory, key) THEN "move" ELSE "test",
                   key |-> key, raised |-> FALSE]]
    /\ UNCHANGED memory
    /\ MemoryPutFrame

\* line 115: self._memory.move_to_end(key), KeyError when the key is gone
MemoryPutMove(t) ==
    /\ lru[t].pc = "move"
    /\ IF MemHas(memory, lru[t].key)
       THEN /\ memory' = Append(MemDrop(memory, lru[t].key),
                                MemEntry(memory, lru[t].key))
            /\ lru' = [lru EXCEPT ![t].pc = "assign"]
       ELSE /\ memory' = memory
            /\ lru' = [lru EXCEPT ![t] = [NoMemoryPut EXCEPT !.raised = TRUE]]
    /\ MemoryPutFrame

\* line 118: if len(self._memory) >= self._memory_size
MemoryPutTest(t) ==
    /\ lru[t].pc = "test"
    /\ lru' = [lru EXCEPT ![t].pc =
                  IF Len(memory) >= MemorySize THEN "pop" ELSE "assign"]
    /\ UNCHANGED memory
    /\ MemoryPutFrame

\* line 119: self._memory.popitem(last=False), KeyError when it is empty
MemoryPutPop(t) ==
    /\ lru[t].pc = "pop"
    /\ IF memory # <<>>
       THEN /\ memory' = Tail(memory)
            /\ lru' = [lru EXCEPT ![t].pc = "assign"]
       ELSE /\ memory' = memory
            /\ lru' = [lru EXCEPT ![t] = [NoMemoryPut EXCEPT !.raised = TRUE]]
    /\ MemoryPutFrame

\* lines 116 and 120: self._memory[key] = (value, ts)
MemoryPutAssign(t) ==
    /\ lru[t].pc = "assign"
    /\ LET e == [key |-> lru[t].key, val |-> "v", ts |-> now]
       IN  memory' =
             IF MemHas(memory, lru[t].key)
             THEN [i \in 1..Len(memory) |->
                      IF memory[i].key = lru[t].key THEN e ELSE memory[i]]
             ELSE Append(memory, e)
    /\ lru' = [lru EXCEPT ![t] = NoMemoryPut]
    /\ MemoryPutFrame

\* get, lines 58-62: del self._memory[key] for an entry past its TTL
MemoryExpire(t, key) ==
    /\ lru[t].pc = "idle"
    /\ MemHas(memory, key)
    /\ memory' = MemDrop(memory, key)
    /\ lru' = [lru EXCEPT ![t] = NoMemoryPut]
    /\ MemoryPutFrame

\* TranslationPipeline.stop has not been called; nemit and late record what
\* happens after it has returned
NotStopped == [pc |-> "running", closed |-> FALSE, nemit |-> 0, late |-> FALSE]

\* what stop() leaves alone in the pipeline
StopFrame ==
    UNCHANGED <<pvars, envvars, cachevars, tcall, shield, wvars, fvars, lru>>

\* the reader's side of stop() is modelled in Part II; here its thread only
StopScanFrame == UNCHANGED scanvars

\* a line arrives on a thread whose stop event is not set
DeliverRunning(t, line) ==
    /\ \/ stp.pc = "running"
       \/ t = "watcher" /\ stp.pc \in {"join_reader", "reader_stopped"}
    /\ Deliver(t, line)
    /\ UNCHANGED <<svars, cachevars, tcall, shield, wvars, fvars, gvars>>

\* pipeline.py 193-194, memory_reader.py 233: self._stop_event.set()
StopReader ==
    /\ stp.pc = "running"
    /\ stp' = [stp EXCEPT !.pc = "join_reader"]
    /\ StopFrame /\ StopScanFrame

\* memory_reader.py 234-236: self._thread.join(timeout=5), then _detach. The
\* thread ends when the handler it is in has returned; the join gives up
\* after 5 s when the thread is inside the blocking MT call
JoinReader ==
    /\ stp.pc = "join_reader"
    /\ th["scanner"].pc \in {"idle", "mt"}
    /\ stp' = [stp EXCEPT !.pc = "reader_stopped"]
    /\ StopFrame /\ StopScanFrame

\* pipeline.py 195, watcher.py 60: self._stop_event.set()
StopWatcher ==
    /\ stp.pc = "reader_stopped"
    /\ stp' = [stp EXCEPT !.pc = "join_watcher"]
    /\ StopFrame /\ StopScanFrame

\* watcher.py 61-62: self._thread.join(timeout=5)
JoinWatcher ==
    /\ stp.pc = "join_watcher"
    /\ th["watcher"].pc \in {"idle", "mt"}
    /\ stp' = [stp EXCEPT !.pc = "watcher_stopped"]
    /\ StopFrame /\ StopScanFrame

\* pipeline.py 196-197, cache.py 143-145: self._conn.close(); stop returns
CacheClose ==
    /\ stp.pc = "watcher_stopped"
    /\ stp' = [stp EXCEPT !.pc = "stopped", !.closed = TRUE,
                          !.nemit = Len(emitted)]
    /\ StopFrame /\ StopScanFrame

\* a step of the handler while the connection is open
StepOpen(t) ==
    /\ ~stp.closed
    /\ Step(t)
    /\ UNCHANGED <<svars, cachevars, tcall, shield, wvars, fvars, gvars>>

\* a step of a handler that is still running after close(): the MT call
\* returns; put (cache.py 92-109) stores in the LRU and raises on the closed
\* connection, so the handler is left before the emit
StepClosed(t) ==
    /\ stp.closed
    /\ th[t].pc \in {"mt", "finish"}
    /\ LET res  == th[t].result
           src  == th[t].source_lang
           repl == strip_for_translation(th[t].cleaned).repl
           own_deepl == LinguaToDeepl(config.own_language)
           final == IF res.success /\ repl # <<>>
                    THEN Tr(restore_tokens(res.translated, repl),
                            res.source_lang, TRUE, "")
                    ELSE res
           key == CacheKey(th[t].cleaned,
                           IF src # "" THEN src ELSE final.source_lang,
                           th[t].target_lang)
           puts == /\ th[t].pc = "finish"
                   /\ res.success
                   /\ ~(src = "" /\ res.source_lang = own_deepl)
       IN  IF puts
           THEN /\ memory' = MemoryPut(memory, key, final.translated, now)
                /\ th' = [th EXCEPT ![t] = Idle]
                /\ returned' = [id |-> th[t].id, key |-> DedupKey(th[t].msg),
                                arr |-> th[t].now,
                                channel |-> th[t].msg.channel,
                                why |-> "raised"]
                /\ stp' = [stp EXCEPT !.late = TRUE]
                /\ UNCHANGED <<config, det_own, recent_messages, db, now,
                               emitted, nlines, history>>
           ELSE /\ Step(t)
                /\ UNCHANGED stp
    /\ UNCHANGED <<svars, cachevars, tcall, shield, wvars, fvars, lru>>

InitUnits ==
    /\ recency = <<>>
    /\ latest = {}
    /\ cret = NoCacheOp
    /\ tcall = IdleCall
    /\ shield = NoShield
    /\ InitWatch
    /\ pbk = NoLookup
    /\ prs = NoParse
    /\ cfl = NoConfigLoad
    /\ lru = [t \in Threads |-> NoMemoryPut]
    /\ stp = NotStopped

-----------------------------------------------------------------------------
(* Specifications.                                                         *)

vars == <<pvars, svars, uvars>>

Init == InitPipe /\ InitScan /\ InitUnits

\* the reader on its own: the pipeline sits in one of its initial states
InitReader == Init /\ config.translation_enabled /\ db = {}

Tails == UNION {[1..n -> Lines] : n \in 1..MaxHistory}

\* one caller at a time: a line is handed in when the previous has returned;
\* the settings may be saved at any moment; the clock, read at a grain of
\* TickLen seconds, moves between two lines
NextPipe ==
    \/ \E line \in Lines :
          /\ AllIdle /\ nlines < MaxLines /\ Deliver("watcher", line)
          /\ UNCHANGED <<svars, uvars>>
    \/ Step("watcher") /\ UNCHANGED <<svars, uvars>>
    \/ \E cfg \in Configs : UpdateConfig(cfg) /\ UNCHANGED <<svars, uvars>>
    \/ \E tail \in Tails : LoadHistory(tail) /\ UNCHANGED <<svars, uvars>>
    \/ AllIdle /\ Tick /\ UNCHANGED <<svars, uvars>>

\* scanner thread and watcher thread call the handler concurrently
NextRace ==
    \/ \E t \in Threads, line \in Lines :
          nlines < MaxLines /\ Deliver(t, line) /\ UNCHANGED <<svars, uvars>>
    \/ \E t \in Threads : Step(t) /\ UNCHANGED <<svars, uvars>>
    \/ Tick /\ UNCHANGED <<svars, uvars>>

\* the lines that matter to the dedup step: equal and different keys,
\* enabled and disabled channels, an instant path and the MT path
DedupLines ==
    { ChatLine("Ally", "gg", "Party"),
      ChatLine("Ally", "gg", "Officer"),
      ChatLine("Hero", "hola {skull}", "Party") }

NextDedup ==
    \/ \E line \in DedupLines :
          /\ AllIdle /\ nlines < MaxDedupLines /\ Deliver("watcher", line)
          /\ UNCHANGED <<svars, uvars>>
    \/ Step("watcher") /\ UNCHANGED <<svars, uvars>>
    \/ \E cfg \in Configs : UpdateConfig(cfg) /\ UNCHANGED <<svars, uvars>>
    \/ Tick /\ UNCHANGED <<svars, uvars>>

\* the reader follows the buffer of one helper session as it relocates
NextScan ==
    \/ Start /\ UNCHANGED <<pvars, uvars>>
    \/ StepAttach /\ UNCHANGED <<pvars, uvars>>
    \/ StepFind /\ UNCHANGED <<pvars, uvars>>
    \/ same_addr_count < MaxSameAddr /\ StepPoll(FALSE) /\ UNCHANGED <<pvars, uvars>>
    \/ WaitDone(0) /\ UNCHANGED <<pvars, uvars>>
    \/ \E p \in TwoPayloads, a \in BufAddrs :
          next_seq <= MaxSeq /\ HelperMessage(p, a) /\ UNCHANGED <<pvars, uvars>>
    \/ \E a \in BufAddrs : Collect(a) /\ UNCHANGED <<pvars, uvars>>

\* the helper is reloaded under the reader; a loop iteration may take long
NextReset ==
    \/ Start /\ UNCHANGED <<pvars, uvars>>
    \/ StepAttach /\ UNCHANGED <<pvars, uvars>>
    \/ StepFind /\ UNCHANGED <<pvars, uvars>>
    \/ same_addr_count < MaxSameAddr /\ StepPoll(FALSE) /\ UNCHANGED <<pvars, uvars>>
    \/ \E stall \in {StallLen \div 2, StallLen} :
          WaitDone(stall) /\ UNCHANGED <<pvars, uvars>>
    \/ \E p \in TwoPayloads, a \in {1, 2} :
          next_seq <= MaxResetSeq /\ HelperMessage(p, a) /\ UNCHANGED <<pvars, uvars>>
    \/ \E a \in {1, 2} : Collect(a) /\ UNCHANGED <<pvars, uvars>>
    \/ session < MaxSess /\ Reload /\ UNCHANGED <<pvars, uvars>>

\* the reader is stopped and started, the game exits and starts, the
\* callback may raise
NextAttach ==
    \/ Start /\ UNCHANGED <<pvars, uvars>>
    \/ Stop /\ UNCHANGED <<pvars, uvars>>
    \/ StepAttach /\ UNCHANGED <<pvars, uvars>>
    \/ StepFind /\ UNCHANGED <<pvars, uvars>>
    \/ \E raise \in BOOLEAN :
          same_addr_count < MaxSameAddr /\ StepPoll(raise) /\ UNCHANGED <<pvars, uvars>>
    \/ StepExcept /\ UNCHANGED <<pvars, uvars>>
    \/ WaitDone(0) /\ UNCHANGED <<pvars, uvars>>
    \/ \E a \in {1, 2} :
          /\ next_seq <= MaxResetSeq
          /\ HelperMessage(Payload("q", "", 20), a)
          /\ UNCHANGED <<pvars, uvars>>
    \/ ProcExit /\ UNCHANGED <<pvars, uvars>>
    \/ proc_gen < MaxProc /\ session < MaxSess /\ ProcStart /\ UNCHANGED <<pvars, uvars>>

\* the game exits and starts under a running reader
NextGone ==
    \/ Start /\ UNCHANGED <<pvars, uvars>>
    \/ StepAttach /\ UNCHANGED <<pvars, uvars>>
    \/ StepFind /\ UNCHANGED <<pvars, uvars>>
    \/ \E raise \in BOOLEAN : StepPoll(raise) /\ UNCHANGED <<pvars, uvars>>
    \/ StepExcept /\ UNCHANGED <<pvars, uvars>>
    \/ WaitDone(0) /\ UNCHANGED <<pvars, uvars>>
    \/ \E a \in {1, 2} :
          /\ next_seq <= MaxResetSeq
          /\ HelperMessage(Payload("q", "", 20), a)
          /\ UNCHANGED <<pvars, uvars>>
    \/ ProcExit /\ UNCHANGED <<pvars, uvars>>
    \/ proc_gen < MaxProc /\ session < MaxSess /\ ProcStart /\ UNCHANGED <<pvars, uvars>>

\* the steps of the reader's thread
ReaderStep ==
    \/ StepAttach /\ UNCHANGED <<pvars, uvars>>
    \/ StepFind /\ UNCHANGED <<pvars, uvars>>
    \/ \E raise \in BOOLEAN : StepPoll(raise) /\ UNCHANGED <<pvars, uvars>>
    \/ StepExcept /\ UNCHANGED <<pvars, uvars>>
    \/ WaitDone(0) /\ UNCHANGED <<pvars, uvars>>

\* the cache on its own: any sequence of put, get, cleanup, reopen
NextCache ==
    \/ \E text \in CacheTexts, c \in CacheCodes, v \in CacheVals :
          Put(text, c[1], c[2], v) /\ UNCHANGED <<svars, tcall, shield, wvars, fvars, gvars>>
    \/ \E text \in CacheTexts, c \in CacheCodes :
          Get(text, c[1], c[2]) /\ UNCHANGED <<svars, tcall, shield, wvars, fvars, gvars>>
    \/ Cleanup /\ UNCHANGED <<svars, tcall, shield, wvars, fvars, gvars>>
    \/ Reopen /\ UNCHANGED <<svars, tcall, shield, wvars, fvars, gvars>>
    \/ CacheTick /\ UNCHANGED <<svars, tcall, shield, wvars, fvars, gvars>>

\* translate on its own: the client answers, or raises, at each attempt
NextTranslate ==
    \/ \E text \in TranslateTexts, tgt \in TranslateTargets,
          src \in TranslateSources :
          Translate(text, tgt, src)
              /\ UNCHANGED <<pvars, svars, cachevars, shield, wvars, fvars, gvars>>
    \/ \E outcome \in {"ok", "quota", "error"},
          detected \in (IF tcall.source_lang = "" THEN {"EN", "RU", "ES"}
                        ELSE {tcall.source_lang}) :
          ClientCall(outcome, detected)
              /\ UNCHANGED <<pvars, svars, cachevars, shield, wvars, fvars, gvars>>
    \/ TranslateReturn /\ UNCHANGED <<pvars, svars, cachevars, shield, wvars, fvars, gvars>>

\* the token functions on every text of the bound
NextShield ==
    \/ \E text \in Texts \cup {TokenScenario} :
          ShieldStrip(text) /\ UNCHANGED <<pvars, svars, cachevars, tcall, wvars, fvars, gvars>>
    \/ ShieldRestore /\ UNCHANGED <<pvars, svars, cachevars, tcall, wvars, fvars, gvars>>
    \/ ShieldDone /\ UNCHANGED <<pvars, svars, cachevars, tcall, wvars, fvars, gvars>>

SpecPipe == Init /\ [][NextPipe]_vars

SpecRace == Init /\ [][NextRace]_vars

SpecDedup == Init /\ [][NextDedup]_vars

SpecScan == InitReader /\ [][NextScan]_vars

SpecReset == InitReader /\ [][NextReset]_vars

SpecAttach == InitReader /\ [][NextAttach]_vars

SpecScanFair == InitReader /\ [][NextGone]_vars /\ WF_vars(ReaderStep)

SpecCache == InitReader /\ [][NextCache]_vars

SpecTranslate == InitReader /\ [][NextTranslate]_vars

SpecShield == InitReader /\ [][NextShield]_vars

\* the file watcher and the writer of the file
NextWatch ==
    \/ WatcherStart /\ UNCHANGED <<pvars, svars, cachevars, tcall, shield, fvars, gvars>>
    \/ \E fail \in BOOLEAN :
          WatcherPoll(fail)
              /\ UNCHANGED <<pvars, svars, cachevars, tcall, shield, fvars, gvars>>
    \/ \E shape \in ChunkShapes :
          FileAppend(shape)
              /\ UNCHANGED <<pvars, svars, cachevars, tcall, shield, fvars, gvars>>
    \/ \E n \in 0..MaxChars :
          FileTruncate(n)
              /\ UNCHANGED <<pvars, svars, cachevars, tcall, shield, fvars, gvars>>
    \/ FileRemove /\ UNCHANGED <<pvars, svars, cachevars, tcall, shield, fvars, gvars>>
    \/ FileCreate /\ UNCHANGED <<pvars, svars, cachevars, tcall, shield, fvars, gvars>>

SpecWatch == InitReader /\ [][NextWatch]_vars

\* lookups in the phrasebook
NextLookup ==
    \/ \E k \in PbKeys, p \in PunctRuns, w1 \in WsRuns, w2 \in WsRuns,
          up \in BOOLEAN, src \in PbCodes, tgt \in PbCodes :
          PbLookup(k, p, w1, w2, up, src, tgt)
              /\ UNCHANGED <<pvars, svars, cachevars, tcall, shield, wvars,
                             prs, cfl, gvars>>
    \/ PbDone /\ UNCHANGED <<pvars, svars, cachevars, tcall, shield, wvars,
                             prs, cfl, gvars>>

SpecLookup == InitReader /\ [][NextLookup]_vars

\* lines handed to the parser, by the scanner and in each form
NextParse ==
    \/ \E channel \in AddonChannels, author \in Authors, server \in Realms,
          text \in ChatTexts :
          DeliverLegacy(channel, author, server, text)
              /\ UNCHANGED <<pvars, svars, cachevars, tcall, shield, wvars,
                             pbk, cfl, gvars>>
    \/ \E form \in LineForms, text \in ChatTexts :
          ParseForm(form, text)
              /\ UNCHANGED <<pvars, svars, cachevars, tcall, shield, wvars,
                             pbk, cfl, gvars>>
    \/ ParserDone /\ UNCHANGED <<pvars, svars, cachevars, tcall, shield, wvars,
                                 pbk, cfl, gvars>>

SpecParse == InitReader /\ [][NextParse]_vars

\* config files written and loaded
NextConfig ==
    \/ \E file \in ConfigFiles :
          ConfigWrite(file)
              /\ UNCHANGED <<pvars, svars, cachevars, tcall, shield, wvars,
                             pbk, prs, gvars>>
    \/ ConfigLoad /\ UNCHANGED <<pvars, svars, cachevars, tcall, shield, wvars,
                                 pbk, prs, gvars>>
    \/ ConfigDone /\ UNCHANGED <<pvars, svars, cachevars, tcall, shield, wvars,
                                 pbk, prs, gvars>>

SpecConfig == InitReader /\ [][NextConfig]_vars

\* the buffer the reader tracks is collected again and again: the helper
\* takes a chat event once the reader tracks its buffer, writes at two
\* addresses in turn, and the string it left is reclaimed
NextStale ==
    \/ Start /\ UNCHANGED <<pvars, uvars>>
    \/ StepAttach /\ UNCHANGED <<pvars, uvars>>
    \/ StepFind /\ UNCHANGED <<pvars, uvars>>
    \/ StepPoll(FALSE) /\ UNCHANGED <<pvars, uvars>>
    \/ WaitDone(0) /\ UNCHANGED <<pvars, uvars>>
    \/ \E a \in {1, 2} :
          /\ next_seq <= MaxStaleSeq
          /\ live \in {0, buf_addr}
          /\ HelperMessage(Payload("q", "", 20), a)
          /\ UNCHANGED <<pvars, uvars>>
    \/ \E a \in {1, 2} : Collect(a) /\ UNCHANGED <<pvars, uvars>>

SpecStale == InitReader /\ [][NextStale]_vars

\* the reader rescans an idle buffer for a long time; now and then the
\* helper writes, and the callback may raise
NextRescan ==
    \/ Start /\ UNCHANGED <<pvars, uvars>>
    \/ StepAttach /\ UNCHANGED <<pvars, uvars>>
    \/ StepFind /\ UNCHANGED <<pvars, uvars>>
    \/ \E raise \in BOOLEAN : StepPoll(raise) /\ UNCHANGED <<pvars, uvars>>
    \/ StepExcept /\ UNCHANGED <<pvars, uvars>>
    \/ WaitDone(0) /\ UNCHANGED <<pvars, uvars>>
    \/ \E a \in {1, 2} :
          /\ next_seq <= MaxSeq
          /\ HelperMessage(Payload("q", "", 20), a)
          /\ UNCHANGED <<pvars, uvars>>
    \/ \E a \in {1, 2} : Collect(a) /\ UNCHANGED <<pvars, uvars>>

SpecRescan == InitReader /\ [][NextRescan]_vars

\* the same texts from two authors, one the detector names and one it
\* leaves to the MT service
ReuseLines ==
    { ChatLine("Me", "zerg", "Say"),
      ChatLine("Hero", "zerg", "Say"),
      ChatLine("Hero", "hola {skull}", "Party"),
      ChatLine("Ally", "hola {skull}", "Party") }

\* one caller, settings left as they are
NextReuse ==
    \/ \E line \in ReuseLines :
          /\ AllIdle /\ nlines < MaxDedupLines /\ Deliver("watcher", line)
          /\ UNCHANGED <<svars, uvars>>
    \/ Step("watcher") /\ UNCHANGED <<svars, uvars>>
    \/ AllIdle /\ Tick /\ UNCHANGED <<svars, uvars>>

SpecReuse == Init /\ [][NextReuse]_vars

\* scanner thread and watcher thread in the LRU at the same time
NextLru ==
    \/ \E t \in Threads, key \in LruKeys : MemoryPutEnter(t, key)
    \/ \E t \in Threads : MemoryPutMove(t)
    \/ \E t \in Threads : MemoryPutTest(t)
    \/ \E t \in Threads : MemoryPutPop(t)
    \/ \E t \in Threads : MemoryPutAssign(t)
    \/ \E t \in Threads, key \in LruKeys : MemoryExpire(t, key)

SpecLru == InitReader /\ [][NextLru]_vars

\* stop() is called while the two threads hand lines to the pipeline
NextStop ==
    \/ \E t \in Threads, line \in ReuseLines :
          nlines < MaxLines /\ DeliverRunning(t, line)
    \/ \E t \in Threads : StepOpen(t)
    \/ \E t \in Threads : StepClosed(t)
    \/ StopReader
    \/ JoinReader
    \/ StopWatcher
    \/ JoinWatcher
    \/ CacheClose

SpecStop == Init /\ [][NextStop]_vars

-----------------------------------------------------------------------------
(* Properties of the pipeline.                                             *)

Abs(n) == IF n < 0 THEN -n ELSE n

NoMtPaths == {"own", "disabled", "abbrev", "skip", "unmapped", "phrasebook",
              "cache"}

\* C1: lines handed in one after another: two lines with the same
\* (author, text) that arrive within 30 s of each other give at most one
\* emitted TranslatedMessage.
C1_DedupWithinTtl ==
    \A i, j \in 1..Len(emitted) :
        (i < j /\ emitted[i].key = emitted[j].key)
            => Abs(emitted[j].arr - emitted[i].arr) > DedupTtl

\* a line was dropped as the duplicate of a line emitted at most 30 s earlier
C1_DuplicateDropped ==
    /\ returned.why = "duplicate"
    /\ \E i \in 1..Len(emitted) :
          /\ emitted[i].key = returned.key
          /\ returned.arr - emitted[i].arr \in 1..DedupTtl

\* C2: scanner thread and watcher thread deliver the same (author, text)
\* within 1 s of each other: under every interleaving of the two handler
\* invocations one TranslatedMessage is emitted for the pair, never two.
C2_OneEmitAcrossSources ==
    \A i, j \in 1..Len(emitted) :
        (i < j /\ emitted[i].key = emitted[j].key)
            => Abs(emitted[j].arr - emitted[i].arr) > 1

\* C3: a line whose channel is not in enabled_channels of the config that
\* is current when the handler filters the line is never emitted, neither
\* as a passthrough nor translated, and load_history returns no message of
\* a channel that is not enabled.
C3_ChannelFilter ==
    [][ /\ Len(emitted') > Len(emitted)
           => emitted'[Len(emitted')].channel
                 \in emitted'[Len(emitted')].enabled
        /\ \A i \in 1..Len(history') :
              history'[i].msg.channel \in config'.enabled_channels ]_vars

\* a line of a disabled channel went through the handler and was dropped
C3_DisabledChannelDropped ==
    /\ returned.why = "channel"
    /\ returned.channel \notin config.enabled_channels
    /\ \A i \in 1..Len(emitted) : emitted[i].id # returned.id

\* the conditions under which invocation h reaches the MT call, each on
\* what the handler read when it made the test
MtPreconditions(h) ==
    LET msg     == h.msg
        cleaned == clean_message_text(msg.text)
        tgt     == h.target_lang
        d       == detect(cleaned, h.own_language)
        src     == IF d = "UNKNOWN" THEN "" ELSE LinguaToDeepl(d)
    IN  /\ msg.ok
        /\ ~h.dup
        /\ msg.channel \in h.enabled
        /\ ~(h.own_character # "" /\ msg.author = h.own_character)
        /\ h.translation_enabled
        /\ ~is_empty_or_whitespace(cleaned)
        /\ phrasebook_abbrev(cleaned, tgt) = ""
        /\ d # ""
        /\ (d = "UNKNOWN" \/ src # "")
        /\ phrasebook_lookup(cleaned, src, tgt) = ""
        /\ ~CacheGet(memory, db, CacheKey(cleaned, src, tgt), now).hit

\* C4: a line gives at most one emitted message and at most one MT call; the
\* MT adapter has been called only for a line that parsed, was no duplicate,
\* has an enabled channel, is not by the own character, with translation
\* enabled, a non-empty cleaned text, and a miss of the abbreviation lookup,
\* the detector, the phrasebook and the cache; an own-character, disabled,
\* abbreviation, own-language, unmapped, phrasebook or cache outcome is
\* emitted with no MT call.
C4_OneEmitOneCall ==
    /\ \A i, j \in 1..Len(emitted) : i < j => emitted[i].id # emitted[j].id
    /\ \A i \in 1..Len(emitted) :
          /\ emitted[i].mt <= 1
          /\ emitted[i].path \in NoMtPaths => emitted[i].mt = 0
    /\ \A t \in Threads :
          /\ th[t].mt <= 1
          /\ th[t].mt > 0 => MtPreconditions(th[t])

\* one line went through the MT call, another was answered by the phrasebook
\* without one
C4_BothPathsTaken ==
    \E i, j \in 1..Len(emitted) :
        /\ emitted[i].path = "mt" /\ emitted[i].mt = 1
        /\ emitted[j].path = "phrasebook" /\ emitted[j].mt = 0

-----------------------------------------------------------------------------
(* Properties of the memory reader.                                        *)

\* a step of _poll_buffer
PollStep ==
    /\ spc = "step"
    /\ buf_addr # 0
    /\ spc' \in {"wait_poll", "except"}

\* the places in delivered of the lines the step handed to the callback
NewlyDelivered == (Len(delivered) + 1)..Len(delivered')

\* C5: within one helper session every line handed to the callback has a
\* SEQ greater than that of each line handed over before it: increasing
\* order, no SEQ twice, whatever polls, rescans, relocations and marker-gone
\* recoveries lie in between.
C5_SeqStrictlyIncreasing ==
    \A i, j \in 1..Len(delivered) :
        (i < j /\ delivered[i].sess = delivered[j].sess)
            => delivered[i].seq < delivered[j].seq

\* C6: after an attach, the initial one or one that follows a detach, the
\* first successful find sets last_seq to the max_seq of the buffer found,
\* and no line that was in that buffer is handed to the callback.
C6_SkipExistingOnAttach ==
    [][ /\ (fresh /\ ~fresh') => last_seq' = extract_max_seq(present')
        /\ \A i \in NewlyDelivered : delivered'[i] \notin Range(present')
      ]_vars

\* C7: a poll that reads a buffer whose highest SEQ is below last_seq takes
\* last_seq back to 0 (so that it ends no higher than that buffer's SEQs);
\* in the 60 s that follow no line is delivered whose 200-prefix is that of
\* a payload visible before the reset, and once the 60 s are over no line
\* is passed over by the guard.
C7_ResetGuardWindow ==
    [][ PollStep =>
          /\ (Readable /\ mem[buf_addr] # <<>>
                /\ extract_max_seq(mem[buf_addr]) < last_seq)
                => last_seq' <= extract_max_seq(mem[buf_addr])
          /\ \A i \in NewlyDelivered :
                pre_reset_expire' >= 0
                    => Prefix(delivered'[i].payload) \notin pre_visible'
          /\ \A i \in 1..Len(skipped') : pre_reset_expire' >= 0
      ]_vars

\* C8: after a detected reset the guard passes over a line only if its
\* payload was seen before the reset and had been delivered before; every
\* other line of the new session is delivered, also in the buffer in which
\* the reset is detected.
C8_GuardOnlyDelivered ==
    [][ PollStep =>
          \A i \in 1..Len(skipped') :
              /\ Prefix(skipped'[i].payload) \in pre_visible'
              /\ \E k \in 1..Len(delivered) :
                    Prefix(delivered[k].payload) = Prefix(skipped'[i].payload)
      ]_vars

\* the reader holds a handle of a game process that is gone
AttachedToGone == attached /\ ~Readable

\* C9: when the game process exits while the reader is attached, the reader
\* eventually detaches.
C9_DetachWhenGone == AttachedToGone ~> ~attached

\* C10: a periodic rescan over a readable buffer adopts the newest buffer:
\* when a cached region of at most 8 MiB holds a buffer with a higher
\* max_seq than the tracked one, the rescan moves buf_addr to a buffer at
\* least that new, whether or not that region is in the region history.
C10_RescanAdoptsNewer ==
    [][ (PollStep /\ Readable /\ mem[buf_addr] # <<>>
           /\ last_rescan < 0 /\ last_rescan' = 0)
          => \A a \in Range(AddrsOf(HeapRegions(all_regions))) :
                (mem[a] # <<>>
                   /\ extract_max_seq(mem[a]) > extract_max_seq(mem[buf_addr]))
                  => /\ buf_addr' # buf_addr
                     /\ extract_max_seq(mem[buf_addr'])
                           >= extract_max_seq(mem[a])
      ]_vars

-----------------------------------------------------------------------------
(* Properties of the cache, the translator and the token functions.        *)

C12_PutEvictsLru ==
    [][ \A text \in CacheTexts, c \in CacheCodes, v \in CacheVals :
          Put(text, c[1], c[2], v)
          => LET key  == CacheKey(text, c[1], c[2])
                 old  == MemKeys(memory)
                 kept == {e \in Range(memory) : e.key # key}
             IN  /\ key \in MemKeys(memory')
                 /\ key \in old
                      => /\ MemKeys(memory') = old
                         /\ kept \subseteq Range(memory')
                 /\ (key \notin old /\ Len(memory) < MemorySize)
                      => /\ MemKeys(memory') = old \cup {key}
                         /\ kept \subseteq Range(memory')
                 /\ (key \notin old /\ Len(memory) = MemorySize)
                      => \E k \in old :
                           /\ MemKeys(memory') = (old \ {k}) \cup {key}
                           /\ Len(memory') = MemorySize
                           /\ {e \in kept : e.key # k} \subseteq Range(memory')
                           /\ \A k2 \in old \ {k} :
                                 LastUse(recency, k) < LastUse(recency, k2)
      ]_vars

\* a put has just evicted an entry that was stored later than an entry
\* that stays: the one that stays was used by a get in between
C12_EvictedAfterGetHit ==
    /\ cret.op = "put"
    /\ Len(memory) = MemorySize
    /\ \E k \in cret.evicted, r1, r2 \in db :
          /\ r1.key = k
          /\ r2.key \in MemKeys(memory) \ {cret.key}
          /\ r2.ts < r1.ts

\* C13: a get answers from the LRU when the LRU holds an unexpired entry of
\* the key, and then leaves the table alone; whatever it returns is the
\* value of an entry of that key whose age does not exceed the TTL; when
\* the LRU gives nothing and the table's row is older than the TTL the row
\* is deleted and the get misses; when the row is within the TTL it is
\* inserted into the LRU and returned; with no row the get misses.
C13_GetLayers ==
    [][ \A text \in CacheTexts, c \in CacheCodes :
          Get(text, c[1], c[2])
          => LET key    == CacheKey(text, c[1], c[2])
                 Age(e) == now - e.ts
                 inlru  == /\ MemHas(memory, key)
                           /\ Age(MemEntry(memory, key)) <= DEFAULT_TTL
             IN  /\ inlru => /\ cret'.hit
                             /\ cret'.val = MemEntry(memory, key).val
                             /\ db' = db
                 /\ cret'.hit
                      => \E e \in Range(memory) \cup db :
                            /\ e.key = key /\ e.val = cret'.val
                            /\ Age(e) <= DEFAULT_TTL
                 /\ (~inlru /\ ~DbHas(db, key)) => (~cret'.hit /\ db' = db)
                 /\ (~inlru /\ DbHas(db, key)
                            /\ Age(DbRow(db, key)) > DEFAULT_TTL)
                      => /\ ~cret'.hit
                         /\ db' = db \ {DbRow(db, key)}
                         /\ ~MemHas(memory', key)
                 /\ (~inlru /\ DbHas(db, key)
                            /\ Age(DbRow(db, key)) <= DEFAULT_TTL)
                      => /\ cret'.hit
                         /\ cret'.val = DbRow(db, key).val
                         /\ DbRow(db, key) \in Range(memory')
                         /\ db' = db
      ]_vars

\* a get has just deleted an expired row and missed, while another key's
\* row, within the TTL, sits in the LRU
C13_ExpiredRowDeleted ==
    /\ cret.op = "get"
    /\ ~cret.hit
    /\ cret.count = 1
    /\ ~DbHas(db, cret.key)
    /\ \E r \in db : r \in Range(memory) /\ now - r.ts <= DEFAULT_TTL

\* C14: a get of (text, src, tgt) returns the value of the most recent put
\* for that text and those language codes, compared without regard to
\* letter case, whenever that put is not older than the TTL: whether or
\* not the key is still in the LRU, and whether or not the cache has been
\* closed and reopened since.
C14_GetReturnsLatestPut ==
    [][ \A text \in CacheTexts, c \in CacheCodes :
          Get(text, c[1], c[2])
          => \A e \in latest :
                ( /\ e.key[1] = text
                  /\ e.key[2] = Upper(c[1])
                  /\ e.key[3] = Upper(c[2])
                  /\ now - e.ts <= DEFAULT_TTL )
                => (cret'.hit /\ cret'.val = e.val)
      ]_vars

\* a get has just hit on a reopened cache: three rows within the TTL in
\* the table, and the LRU holding nothing but the entry just read
C14_HitAfterReopen ==
    /\ cret.op = "get"
    /\ cret.hit
    /\ MemKeys(memory) = {cret.key}
    /\ Cardinality(db) = 3
    /\ \A r \in db : now - r.ts <= DEFAULT_TTL
    /\ \E e \in latest : e.key = cret.key /\ e.val = cret.val /\ e.ts < now

\* C15: cleanup deletes exactly the rows of the table whose created_at is
\* older than now - TTL, leaves every other row as it was, and returns the
\* number of rows it deleted.
C15_CleanupExact ==
    [][ Cleanup
        => /\ db' = {r \in db : ~(r.ts < now - DEFAULT_TTL)}
           /\ cret'.count = Cardinality(db) - Cardinality(db')
           /\ cret'.count = Cardinality({r \in db : now - r.ts > DEFAULT_TTL})
      ]_vars

\* a cleanup has just deleted a row and left one that is exactly one TTL
\* old and one that is younger
C15_CleanupAtBoundary ==
    /\ cret.op = "cleanup"
    /\ cret.count >= 1
    /\ \E r1, r2 \in db : /\ now - r1.ts = DEFAULT_TTL
                           /\ now - r2.ts < DEFAULT_TTL

\* C16: a call of translate with the empty text or a text of whitespace
\* only ends with success = true and translated equal to the text given,
\* and the client is never called.
C16_BlankTextNoCall ==
    (tcall.pc # "idle" /\ tcall.text \in {"", " "})
    => /\ tcall.pc = "done"
       /\ tcall.calls = 0
       /\ tcall.result.success
       /\ tcall.result.translated = tcall.text
       /\ tcall.result.error = ""

\* translate has returned for a text of one space
C16_WhitespaceReturned ==
    /\ tcall.pc = "done"
    /\ tcall.text = " "
    /\ tcall.result.success
    /\ tcall.calls = 0

\* C17 (as amended): for a text that is not blank, translate calls the
\* client at most 3 times; a transport error on the k-th call, k < 3, is
\* followed by a sleep of delay * 2^(k-1) and another call; the first
\* call that succeeds is returned at once with success = true; after 3
\* failed calls the result is a failure with translated equal to the text
\* given and the error max_retries_exceeded, with no sleep after the third.
C17_RetryBackoff ==
    (tcall.pc # "idle" /\ tcall.text \notin {"", " "})
    => /\ tcall.calls <= MAX_RETRIES
       /\ \A k \in 1..Len(tcall.sleeps) :
             tcall.sleeps[k] = RETRY_DELAY * (2 ^ (k - 1))
       /\ tcall.pc = "attempt"
            => /\ tcall.calls < MAX_RETRIES
               /\ Len(tcall.sleeps) = tcall.calls
               /\ tcall.last \in {"none", "error"}
       /\ tcall.pc = "done"
            => /\ tcall.calls >= 1
               /\ Len(tcall.sleeps) = tcall.calls - 1
       /\ (tcall.pc = "done" /\ tcall.last = "ok")
            => /\ tcall.result.success
               /\ tcall.result.error = ""
               /\ tcall.result.translated
                     = MtText(tcall.text, tcall.target_lang)
       /\ (tcall.pc = "done" /\ tcall.last = "error")
            => /\ tcall.calls = MAX_RETRIES
               /\ ~tcall.result.success
               /\ tcall.result.translated = tcall.text
               /\ tcall.result.error = "max_retries_exceeded"
       /\ (tcall.pc = "done" /\ tcall.result.error = "max_retries_exceeded")
            => tcall.last = "error"

\* three transport errors in a row: sleeps of 1 and 2 delays, then failure
C17_ThreeFailures ==
    /\ tcall.pc = "done"
    /\ tcall.calls = MAX_RETRIES
    /\ tcall.sleeps = <<RETRY_DELAY, 2 * RETRY_DELAY>>
    /\ tcall.result.error = "max_retries_exceeded"

\* C17 as stated: the back-off after a transport error on attempt k is
\* delay * 2^k
C17_BackoffTwoToK ==
    \A k \in 1..Len(tcall.sleeps) :
        tcall.sleeps[k] = RETRY_DELAY * (2 ^ k)

\* C18: QuotaExceeded from the client ends translate at once, on whichever
\* attempt it comes: no further call and no sleep follow it, and the
\* result is a failure with translated equal to the text given and an
\* error that is neither none nor max_retries_exceeded.
C18_QuotaEndsCall ==
    [][ \A d \in {"EN", "RU", "ES"} :
          ( /\ tcall.pc = "attempt"
            /\ ClientCall("quota", d) )
          => /\ tcall'.pc = "done"
             /\ tcall'.calls = tcall.calls + 1
             /\ tcall'.sleeps = tcall.sleeps
             /\ ~tcall'.result.success
             /\ tcall'.result.translated = tcall.text
             /\ tcall'.result.error \notin {"", "max_retries_exceeded"}
      ]_vars

\* the quota error came on the third attempt, after two transport errors
C18_QuotaOnThirdAttempt ==
    /\ tcall.pc = "done"
    /\ tcall.last = "quota"
    /\ tcall.calls = MAX_RETRIES
    /\ Len(tcall.sleeps) = MAX_RETRIES - 1
    /\ tcall.result.error = "quota_exceeded"

\* C19: whenever translate returns success = true, translated is not the
\* empty string and the error is none.
C19_SuccessHasText ==
    (tcall.pc = "done" /\ tcall.result.success)
    => (tcall.result.translated # "" /\ tcall.result.error = "")

\* C20: for every text, restore_tokens applied to the masked text and the
\* replacements that strip_for_translation returns gives the text back.
C20_RestoreInvertsStrip ==
    shield.pc = "restored" => shield.restored = shield.text

-----------------------------------------------------------------------------
(* Properties of the token scenario, the self-check, the configuration,   *)
(* the file watcher, the phrasebook, the parser and the config file.       *)

\* C21: for the text "focus {skull} on https://wowhead.com/npc/1" the
\* masked text is "focus __WCT0__ on __WCT1__" (the marker, first in the
\* text, has index 0 and the URL index 1), and the restored text holds the
\* marker and the URL unchanged.
C21_ScenarioMasked ==
    (shield.pc # "idle" /\ shield.text = TokenScenario)
    => /\ shield.masked = <<"focus", Space, Placeholder(0), Space, "on",
                            Space, Placeholder(1)>>
       /\ shield.pc = "restored" => shield.restored = TokenScenario

\* C22: when the handler comes back from the MT call with a successful
\* outcome, had no source language for the line, and the outcome's
\* detected source is the code of the configured own language, the line
\* is emitted with translation = null and neither layer of the cache
\* changes; when the handler had a source language, the emitted message
\* carries the outcome of the call, never null.
C22_SelfCheck ==
    [][ \A t \in Threads :
          (th[t].pc = "finish" /\ th'[t].pc = "idle")
          => LET e == emitted'[Len(emitted')]
                 own_deepl == LinguaToDeepl(config.own_language)
             IN  /\ Len(emitted') = Len(emitted) + 1
                 /\ e.id = th[t].id
                 /\ ( /\ th[t].source_lang = ""
                      /\ th[t].result.success
                      /\ th[t].result.source_lang = own_deepl )
                      => /\ e.tr = NoTr
                         /\ memory' = memory
                         /\ db' = db
                 /\ th[t].source_lang # ""
                      => /\ ~e.tr.isnull
                         /\ e.tr.success = th[t].result.success
                         /\ e.tr.source_lang = th[t].result.source_lang
      ]_vars

\* the self-check has suppressed the MT result of "zerg", and the cache
\* holds nothing for that text
C22_Suppressed ==
    /\ Len(emitted) >= 1
    /\ emitted[Len(emitted)].path = "selfcheck"
    /\ emitted[Len(emitted)].tr.isnull
    /\ emitted[Len(emitted)].mt = 1
    /\ emitted[Len(emitted)].key[2] = "zerg"
    /\ \A r \in db : r.key[1] # "zerg"
    /\ \A i \in 1..Len(memory) : memory[i].key[1] # "zerg"

\* C23: a line is processed under one configuration: once the handler has
\* read the enabled channels, the own character and the translation flag,
\* and later the target language and the detector's own language, some
\* one PipelineConfig has all the values it read.
C23_OneConfigPerLine ==
    \A t \in Threads :
       /\ th[t].pc \in {"abbrev", "detect", "phrasebook", "cache", "mt",
                         "finish"}
            => \E cfg \in Configs :
                  /\ th[t].enabled = cfg.enabled_channels
                  /\ th[t].own_character = cfg.own_character
                  /\ th[t].translation_enabled = cfg.translation_enabled
       /\ th[t].pc \in {"phrasebook", "cache", "mt", "finish"}
            => \E cfg \in Configs :
                  /\ th[t].enabled = cfg.enabled_channels
                  /\ th[t].translation_enabled = cfg.translation_enabled
                  /\ th[t].target_lang = cfg.target_lang
                  /\ th[t].own_language = cfg.own_language

\* C24: at any moment at most one handler invocation is at the call of
\* the MT adapter.
C24_OneMtCallInFlight ==
    Cardinality({t \in Threads : th[t].pc = "mt"}) <= 1

\* the whole lines of a file content: those a newline ends
CompleteLines(content) ==
    LET ends == {i \in 1..Len(content) : content[i] = NL}
        last == IF ends = {} THEN 0
                ELSE CHOOSE i \in ends : \A j \in ends : j <= i
    IN  NewLines(SubSeq(content, 1, last))

\* C25: a poll that finds the file smaller than the recorded position
\* sets the position to 0 and delivers nothing spurious: every line it
\* delivers is a whole line of the file that was not delivered before; a
\* poll that finds no file leaves the position and delivers nothing.
C25_TruncationNoSpurious ==
    [][ \A fail \in BOOLEAN :
          WatcherPoll(fail)
          => /\ ~wexists => (wpos' = wpos /\ wlines' = wlines)
             /\ (wexists /\ Len(wfile) < wpos)
                  => /\ wpos' \in {0, Len(wfile)}
                     /\ \A i \in (Len(wlines) + 1)..Len(wlines') :
                           /\ wlines'[i] \in Range(CompleteLines(wfile))
                           /\ wlines'[i] \notin Range(wlines)
      ]_vars

\* C26: as long as the file was neither cut nor removed since start(),
\* the lines delivered are, in file order and each once, the non-blank
\* whole lines of what was appended after start(), and all of them once a
\* poll has read up to a line end.
C26_ExactlyAppendedLines ==
    (wstarted /\ wtrunc = 0)
    => LET after == SubSeq(wfile, wstart + 1, Len(wfile))
           whole == CompleteLines(after)
       IN  /\ Len(wlines) <= Len(whole)
           /\ wlines = SubSeq(whole, 1, Len(wlines))
           /\ (wpos = Len(wfile) /\ wexists
                 /\ (after = <<>> \/ after[Len(after)] = NL))
                => wlines = whole

\* C27: for every key of the phrasebook and every pair of language codes,
\* lookup of the key followed by trailing punctuation and wrapped in outer
\* whitespace, in lower or upper case, with the codes in lower or upper
\* case, answers what lookup answers for the key.
C27_LookupInvariant ==
    pbk.pc = "done" => pbk.result = pbk.base

\* the text of a buffer line that the parser hands on as it is: not empty,
\* no whitespace at either end, no client markup, not a system message
PlainText(text) ==
    /\ text # <<>>
    /\ Head(text) \notin Whitespace
    /\ text[Len(text)] \notin Whitespace
    /\ \A i \in 1..Len(text) :
           text[i] \notin {Color, Reset, HItem, HEnd, "has left"}
    /\ Head(text) # "LOOT:"

\* the message has the channel, the author, the server and the text of the
\* buffer line
SameTokens ==
    /\ prs.msg.ok
    /\ prs.msg.channel = ADDON_CHANNEL_MAP(prs.channel)
    /\ prs.msg.author = prs.author
    /\ prs.msg.server = prs.server
    /\ prs.msg.text = prs.text

\* C28 (as stated): for every legacy buffer line
\* SEQ|CHANNEL|AUTHOR-SERVER|TEXT with a supported CHANNEL, the line the
\* scanner makes of it parses to a message whose channel is the enum value
\* of CHANNEL and whose author, server and text are AUTHOR, SERVER, TEXT.
C28_LegacyRoundTrip ==
    (prs.pc = "legacy" /\ ADDON_CHANNEL_MAP(prs.channel) # "") => SameTokens

\* C28 (amended): the same for every such line whose TEXT is not empty, has
\* no whitespace at either end, holds no client markup and is not a system
\* message.
C28_LegacyRoundTripPlain ==
    (prs.pc = "legacy" /\ ADDON_CHANNEL_MAP(prs.channel) # ""
        /\ PlainText(prs.text)) => SameTokens

\* a whisper with a realm that holds a dash and a text that holds a colon
\* has been delivered and parsed
C28_WhisperParsed ==
    /\ prs.pc = "legacy"
    /\ prs.channel = "WHISPER"
    /\ prs.server = <<"Area", Dash, "52">>
    /\ prs.text = <<"hello", Colon>>
    /\ prs.msg.ok
    /\ prs.msg.channel = "WHISPER_FROM"

\* the text is made of full links and whitespace, with one link at least
RECURSIVE LinksAndSpace(_)
LinksAndSpace(text) ==
    IF text = <<>> THEN TRUE
    ELSE IF Head(text) \in Whitespace THEN LinksAndSpace(Tail(text))
         ELSE /\ Len(text) >= 5
              /\ SubSeq(text, 1, 5) = WowLink
              /\ LinksAndSpace(SubSeq(text, 6, Len(text)))

\* C29: parse_line returns null for every chat line, in every supported
\* form, whose message text is made of full item or spell links and
\* whitespace only.
C29_LinkOnlyIsNull ==
    (prs.pc = "parsed" /\ prs.form \in SupportedForms
        /\ LinksAndSpace(prs.text)
        /\ \E i \in 1..Len(prs.text) : prs.text[i] = Color)
        => ~prs.msg.ok

\* C30: loading a file that holds an object returns a config and does not
\* fail: every field missing from the file has its default, every field
\* the file names has the file's value, and a key that the record does not
\* define is ignored.
C30_LoadOverlaysDefaults ==
    (cfl.pc = "loaded" /\ cfl.file.kind = "object") =>
        /\ cfl.raised = ""
        /\ \A k \in ConfigFields :
               cfl.config[k] = IF k \in DOMAIN cfl.file.data
                               THEN cfl.file.data[k] ELSE ConfigDefaults[k]


-----------------------------------------------------------------------------
(* Properties of the stale threshold, the rescan interval, the detach, the *)
(* cache writes, the sequence numbers, the dedup window, the cache reuse,  *)
(* the size of the LRU, the stop and the whole lines of the watcher.       *)

\* a poll of the tracked address that reads nothing
StalePoll ==
    /\ StepPoll(FALSE)
    /\ (IF Readable THEN mem[buf_addr] ELSE <<>>) = <<>>

\* what a stale poll does when the rescan is due at the count threshold
StaleStep(threshold) ==
    IF stale_count + 1 = threshold
    THEN /\ buf_addr' = 0
         /\ stale_tier' = stale_tier + 1
         /\ stale_count' = 0
    ELSE /\ stale_count' = stale_count + 1
         /\ buf_addr' = buf_addr
         /\ stale_tier' = stale_tier

\* C31 (as stated): on polls that cannot read the marker stale_count grows
\* by one per poll, and exactly when it reaches 2 * 2^tier the address is
\* cleared and the tier goes up by one; the tier is 0 after every poll that
\* delivers messages.
C31_StaleThresholdDoubles ==
    [][ /\ StalePoll => StaleStep(2 * (2 ^ stale_tier))
        /\ delivered' # delivered => stale_tier' = 0 ]_vars

\* C31 (amended): the same with the threshold min(2 * 2^tier, 16), that is
\* 2, 4, 8, 16, 16, ... for tier 0, 1, 2, 3, 4, ...
C31_StaleThresholdCapped ==
    [][ /\ StalePoll =>
             StaleStep(IF 2 * (2 ^ stale_tier) < 16
                       THEN 2 * (2 ^ stale_tier) ELSE 16)
        /\ delivered' # delivered => stale_tier' = 0 ]_vars

\* the rescan of tier 4 has been triggered, and a find is due
C31_TierFiveReached ==
    /\ stale_tier = 5
    /\ buf_addr = 0
    /\ stale_count = 0
    /\ attached


\* the interval of the ladder for a same-address count: 2 s below 3, 5 s
\* from 3, 10 s from 6, 30 s from 9 on
LadderStep(count) ==
    CASE count < 3 -> RESCAN_INTERVALS[1]
      [] count < 6 -> RESCAN_INTERVALS[2]
      [] count < 9 -> RESCAN_INTERVALS[3]
      [] OTHER -> RESCAN_INTERVALS[4]

\* a poll in which the periodic rescan ran
RescanRan ==
    /\ \E raise \in BOOLEAN : StepPoll(raise)
    /\ last_rescan # 0
    /\ last_rescan' = 0

C33_DetachDropsRegions ==
    ~attached =>
        /\ buf_addr = 0
        /\ cached_region = NoRegion
        /\ all_regions = <<>>
        /\ region_history = <<>>


\* the entries the two layers of the cache hold
CacheEntries(m, d) == Range(m) \cup d

\* the step emits a message on one of the given paths
EmitsOn(paths) ==
    /\ Len(emitted') = Len(emitted) + 1
    /\ emitted'[Len(emitted')].path \in paths

\* C34: an entry that was in neither layer appears in the cache only in the
\* step that emits a successful MT result; a failed MT outcome leaves both
\* layers as they are and is emitted with success = false and the text that
\* was sent to the MT call; the own-message, disabled, skip, abbreviation,
\* phrasebook and cache-hit paths add no entry.
C34_CacheWrittenOnSuccess ==
    [][ /\ ~(CacheEntries(memory', db') \subseteq CacheEntries(memory, db))
            => /\ EmitsOn({"mt"})
               /\ emitted'[Len(emitted')].tr.success
        /\ \A t \in Threads :
              (th[t].pc = "finish" /\ ~th[t].result.success
                 /\ th'[t].pc # "finish")
              => /\ memory' = memory
                 /\ db' = db
                 /\ EmitsOn({"mt"})
                 /\ ~emitted'[Len(emitted')].tr.isnull
                 /\ ~emitted'[Len(emitted')].tr.success
                 /\ emitted'[Len(emitted')].tr.translated =
                        strip_for_translation(th[t].cleaned).masked
        /\ EmitsOn({"own", "disabled", "skip", "unmapped", "abbrev",
                    "phrasebook", "cache", "selfcheck"})
            => CacheEntries(memory', db') \subseteq CacheEntries(memory, db)
      ]_vars

\* a failed MT outcome of a masked text was emitted and nothing was cached
C34_FailureEmitted ==
    /\ emitted # <<>>
    /\ emitted[Len(emitted)].path = "mt"
    /\ ~emitted[Len(emitted)].tr.success
    /\ emitted[Len(emitted)].tr.translated = "hola __WCT0__"
    /\ memory = <<>>
    /\ db = {}


\* C35: within one helper session last_seq never decreases, and no line
\* with a SEQ up to the last_seq of the moment is handed to the callback.
C35_LastSeqMonotone ==
    [][ /\ last_seq' >= last_seq
        /\ \A i \in NewlyDelivered : delivered'[i].seq > last_seq ]_vars


\* C36: a line is dropped as a duplicate only when the line with its
\* (author, text) that is remembered arrived at most 30 s before it; a line
\* that arrives later than that passes the dedup step.
C36_LateLineNotDuplicate ==
    returned.why = "duplicate" =>
        \A i \in 1..Len(recent_messages) :
            recent_messages[i].key = returned.key
                => returned.arr - recent_messages[i].ts <= DedupTtl


\* C37: after a text was translated by the MT call with success, every
\* later emit for the same text (settings unchanged) comes from the cache
\* with the same translation, with no further MT call.
C37_TranslatedOnce ==
    \A i, j \in 1..Len(emitted) :
        (/\ i < j
         /\ emitted[i].path = "mt"
         /\ emitted[i].tr.success
         /\ emitted[i].key[2] = emitted[j].key[2])
        => /\ emitted[j].path = "cache"
           /\ emitted[j].mt = 0
           /\ emitted[j].tr.translated = emitted[i].tr.translated


\* C38: in every reachable state the in-memory LRU holds at most
\* memory_size entries, however the calls of the two threads interleave.
C38_LruBounded == Len(memory) <= MemorySize


\* C39: once stop() has returned, no TranslatedMessage is emitted and the
\* closed persistent cache is not accessed, also when a join timed out on a
\* thread that was inside the MT call.
C39_QuietAfterStop ==
    stp.pc = "stopped" => (Len(emitted) = stp.nemit /\ ~stp.late)


\* C40: every line a poll hands to the callback is a line of the data it
\* read that a newline ends; the part of a line written so far is not
\* handed over as a line of its own.
C40_WholeLinesDelivered ==
    [][ \A fail \in BOOLEAN :
          (WatcherPoll(fail) /\ wexists /\ wpos <= Len(wfile))
          => \A i \in (Len(wlines) + 1)..Len(wlines') :
                wlines'[i] \in
                    Range(CompleteLines(SubSeq(wfile, wpos + 1, Len(wfile))))
      ]_vars

====
